---- MODULE Spec2Model ----
(***************************************************************************)
(* Model of the orangutan bytecode toolchain: the code module (opcodes,    *)
(* make, readUint16), the symbol table, the single-pass compiler and the   *)
(* stack virtual machine.  Positions, stack slots and frame slots are      *)
(* 0-based as in the source; TLA+ sequences are 1-based, so the byte at    *)
(* offset i of an instruction stream ins is ins[i + 1].                    *)
(***************************************************************************)
EXTENDS Integers, Sequences, FiniteSets, TLC

VARIABLES
  phase,          \* "source" | "compile error" | "bytecode" | "running" | "returned" |
                  \* "thrown" | "symbols"
  input,          \* the program handed to the compiler, or the hand-assembled bytecode
  compiler,       \* the Compiler object (constants, symbols, scopes, scopeIndex)
  constants,      \* VM.constants
  globals,        \* VM.globals (the slots written so far; every other slot is null)
  stack,          \* VM.stack   (the slots written so far; every other slot is null)
  stackPointer,   \* VM.stackPointer
  frames,         \* VM.frames  (the slots written so far)
  framesIndex,    \* VM.framesIndex
  thrown,         \* the Error thrown by compile() or run(), NoError while none
  nextRef,        \* identity of the next object created with `new`
  calls,          \* history: one record per call whose frame is still on the frame stack
  lastCall,       \* history: the Call executed by the last step, if any
  lastReturn,     \* history: the Return/ReturnValue executed by the last step, if any
  tables,         \* symbol tables under test (SymbolSpec)
  lastResolve,    \* history: the last resolve() call on `tables` and its result
  defineCalls,    \* history: the define() calls made on each table so far
  lastDefine,     \* history: the last define() call on `tables` and its result
  lastBinary,     \* history: the binary operation or comparison of the last step, if any
  lastExecuted,   \* history: the instruction of the last step and the stack it found
  evaluated,      \* the evaluator's result for the program, once it has run
  hashKeys,       \* the hash keys computed for a pair of objects (HashSpec)
  coded,          \* the instruction made of an opcode and operands, and its reading (CodeSpec)
  emitted,        \* the bytecodes of the compilations of a hash literal (OrderSpec)
  session         \* the lines read (ReplSpec) and the last OpSetGlobal executed on each slot

vars == <<phase, input, compiler, constants, globals, stack, stackPointer, frames,
          framesIndex, thrown, nextRef, calls, lastCall, lastReturn, tables, lastResolve,
          defineCalls, lastDefine, lastBinary, lastExecuted, evaluated, hashKeys,
          coded, emitted, session>>

vmVars == <<constants, globals, stack, stackPointer, frames, framesIndex>>
historyVars == <<calls, lastCall, lastReturn, lastBinary, lastExecuted, session>>
resultVars == <<evaluated, hashKeys, coded, emitted>>
symbolVars == <<tables, lastResolve, defineCalls, lastDefine>>

(***************************************************************************)
(* Generic helpers.                                                        *)
(***************************************************************************)
Max(a, b) == IF a >= b THEN a ELSE b

\* JavaScript Array.prototype.slice(from, to) on a sequence, 0-based, to exclusive.
Slice(s, from, to) == SubSeq(s, from + 1, to)

RECURSIVE SumSeq(_)
SumSeq(s) == IF s = <<>> THEN 0 ELSE Head(s) + SumSeq(Tail(s))

(***************************************************************************)
(* code.ts: opcodes, definitions, make, readUint16.                        *)
(***************************************************************************)
Opcode ==
  [ OpConstant |-> 0, OpAdd |-> 1, OpPop |-> 2, OpSub |-> 3, OpMul |-> 4, OpDiv |-> 5,
    OpTrue |-> 6, OpFalse |-> 7, OpEqual |-> 8, OpNotEqual |-> 9, OpGreaterThan |-> 10,
    OpMinus |-> 11, OpBang |-> 12, OpJumpNotTruthy |-> 13, OpJump |-> 14, OpNull |-> 15,
    OpGetGlobal |-> 16, OpSetGlobal |-> 17, OpArray |-> 18, OpHash |-> 19, OpIndex |-> 20 ]

\* The opcodes the compiler and the VM use beyond OpIndex.  Their enum entries are
\* not part of the sources at hand; the numbering continues the enum (the spec
\* leaves the numeric values free).
LaterOpcode ==
  [ OpCall |-> 21, OpReturnValue |-> 22, OpReturn |-> 23, OpGetLocal |-> 24,
    OpSetLocal |-> 25, OpGetBuiltin |-> 26, OpClosure |-> 27, OpGetFree |-> 28,
    OpCurrentClosure |-> 29 ]

DEFINITIONS ==
  [ op \in 0..20 |->
      << [name |-> "OpConstant", operandWidths |-> <<2>>],
         [name |-> "OpAdd", operandWidths |-> <<>>],
         [name |-> "OpPop", operandWidths |-> <<>>],
         [name |-> "OpSub", operandWidths |-> <<>>],
         [name |-> "OpMul", operandWidths |-> <<>>],
         [name |-> "OpDiv", operandWidths |-> <<>>],
         [name |-> "OpTrue", operandWidths |-> <<>>],
         [name |-> "OpFalse", operandWidths |-> <<>>],
         [name |-> "OpEqual", operandWidths |-> <<>>],
         [name |-> "OpNotEqual", operandWidths |-> <<>>],
         [name |-> "OpGreaterThan", operandWidths |-> <<>>],
         [name |-> "OpMinus", operandWidths |-> <<>>],
         [name |-> "OpBang", operandWidths |-> <<>>],
         [name |-> "OpJumpNotTruthy", operandWidths |-> <<2>>],
         [name |-> "OpJump", operandWidths |-> <<2>>],
         [name |-> "OpNull", operandWidths |-> <<>>],
         [name |-> "OpGetGlobal", operandWidths |-> <<2>>],
         [name |-> "OpSetGlobal", operandWidths |-> <<2>>],
         [name |-> "OpArray", operandWidths |-> <<2>>],
         [name |-> "OpHash", operandWidths |-> <<2>>],
         [name |-> "OpIndex", operandWidths |-> <<>>] >>[op + 1] ]

\* Operand widths of the later opcodes, as the spec's opcode table gives them.
LaterDefinitions ==
  [ op \in 21..29 |->
      << [name |-> "OpCall", operandWidths |-> <<1>>],
         [name |-> "OpReturnValue", operandWidths |-> <<>>],
         [name |-> "OpReturn", operandWidths |-> <<>>],
         [name |-> "OpGetLocal", operandWidths |-> <<1>>],
         [name |-> "OpSetLocal", operandWidths |-> <<1>>],
         [name |-> "OpGetBuiltin", operandWidths |-> <<1>>],
         [name |-> "OpClosure", operandWidths |-> <<2, 1>>],
         [name |-> "OpGetFree", operandWidths |-> <<1>>],
         [name |-> "OpCurrentClosure", operandWidths |-> <<>>] >>[op - 20] ]

\* DEFINITIONS[op], undefined for a byte that is no opcode.
HasDefinition(op) == op \in DOMAIN DEFINITIONS \cup DOMAIN LaterDefinitions
Definition(op) == IF op \in DOMAIN DEFINITIONS THEN DEFINITIONS[op] ELSE LaterDefinitions[op]

\* A store into a Uint8Array keeps the low 8 bits.
ToUint8(n) == n % 256

\* A variant that stores the low byte first.
MakeUint16LowFirst(operand) == << operand % 256, ToUint8(operand \div 256) >>

\* The two bytes make() writes for a 2-byte operand: operand >> 8, operand & 0xff.
MakeUint16(operand) == << ToUint8(operand \div 256), operand % 256 >>

\* The byte written for a 1-byte operand (the case the later opcodes need).
MakeUint8(operand) == << ToUint8(operand) >>

\* The operand bytes of make(): operands.forEach over the definition's widths.  The
\* buffer is zero-filled, so an operand that is not given leaves zero bytes.
RECURSIVE MakeOperands(_, _, _)
MakeOperands(widths, operands, i) ==
  IF i > Len(widths) THEN <<>>
  ELSE (IF i > Len(operands)
          THEN [k \in 1..widths[i] |-> 0]
          ELSE IF widths[i] = 2 THEN MakeUint16(operands[i]) ELSE MakeUint8(operands[i]))
       \o MakeOperands(widths, operands, i + 1)

make(op, operands) ==
  IF ~HasDefinition(op) THEN <<>>
  ELSE <<op>> \o MakeOperands(Definition(op).operandWidths, operands, 1)

\* Uint8Array read at a 0-based offset; a read past the end is undefined, which the
\* bit operators of readUint16 take as 0.
ByteAt(ins, i) == IF i >= 0 /\ i < Len(ins) THEN ins[i + 1] ELSE 0

\* readUint16(instructions.slice(at)): (slice[0] << 8) | slice[1]
readUint16(ins, at) == ByteAt(ins, at) * 256 + ByteAt(ins, at + 1)

\* The operand a 1-byte width is read as (the case the later opcodes need).
ReadUint8(ins, at) == ByteAt(ins, at)

\* readOperands(definition, instructions): definition.operandWidths.forEach from the
\* i-th width, with the operands read so far and the offset reached.
RECURSIVE ReadWidths(_, _, _, _, _)
ReadWidths(widths, ins, i, operands, offset) ==
  IF i > Len(widths) THEN [operands |-> operands, offset |-> offset]
  ELSE IF widths[i] = 2
    THEN ReadWidths(widths, ins, i + 1, Append(operands, readUint16(ins, offset)), offset + 2)
  ELSE IF widths[i] = 1
    THEN ReadWidths(widths, ins, i + 1, Append(operands, ReadUint8(ins, offset)), offset + 1)
  ELSE ReadWidths(widths, ins, i + 1, operands, offset)

readOperands(definition, ins) == ReadWidths(definition.operandWidths, ins, 1, <<>>, 0)

\* Nothing was made or read.
NotCoded == [instruction |-> <<>>, operands |-> <<>>, offset |-> 0]

RECURSIVE concatInstructions(_)
concatInstructions(list) ==
  IF list = <<>> THEN <<>> ELSE Head(list) \o concatInstructions(Tail(list))

(***************************************************************************)
(* object.ts: the runtime values.  Every value carries `ref`, the identity *)
(* of the JavaScript object (=== compares it); the VM never mutates a      *)
(* value after creating it.  Strings are sequences of UTF-16 code units.   *)
(***************************************************************************)
IntegerObject(value, ref) == [type |-> "IntegerObject", value |-> value, ref |-> ref]
StringObject(str, ref) == [type |-> "StringObject", str |-> str, ref |-> ref]
ArrayObject(elements, ref) == [type |-> "ArrayObject", elements |-> elements, ref |-> ref]
HashObject(pairs, ref) == [type |-> "HashObject", pairs |-> pairs, ref |-> ref]
ErrorObject(message) == [type |-> "ErrorObject", message |-> message]
FunctionObject(parameters, body, environment, ref) ==
  [type |-> "FunctionObject", parameters |-> parameters, body |-> body,
   environment |-> environment, ref |-> ref]
ReturnValueObject(value, ref) == [type |-> "ReturnValueObject", value |-> value, ref |-> ref]

\* defaultObjects.ts: the three singletons.
TRUE_OBJECT == [type |-> "BooleanObject", bool |-> TRUE, ref |-> -1]
FALSE_OBJECT == [type |-> "BooleanObject", bool |-> FALSE, ref |-> -2]
NULL == [type |-> "NullObject", ref |-> -3]

\* What a slot of a new Array(n).fill(null) holds until it is written.
JsNull == [type |-> "null", ref |-> 0]

\* code.ts (later version): CompiledFunctionObject and ClosureObject, by the fields
\* the VM and the compiler read.
CompiledFunctionObject(instructions, numberLocals, numberParameters, ref) ==
  [type |-> "CompiledFunctionObject", instructions |-> instructions,
   numberLocals |-> numberLocals, numberParameters |-> numberParameters, ref |-> ref]
ClosureObject(fn, free, ref) == [type |-> "ClosureObject", fn |-> fn, free |-> free, ref |-> ref]

\* builtins.ts: the builtin functions, in the order of the registry.
BuiltinNames == << "len", "first", "last", "rest", "push", "puts" >>
BuiltinFunctionObject(i) ==
  [type |-> "BuiltinFunctionObject", name |-> BuiltinNames[i + 1], ref |-> -10 - i]

\* objectType() of each class.  HashObject answers ARRAY_OBJECT.
objectType(object) ==
  CASE object.type = "IntegerObject" -> "INTEGER"
    [] object.type = "BooleanObject" -> "BOOLEAN"
    [] object.type = "NullObject" -> "NULL"
    [] object.type = "StringObject" -> "STRING"
    [] object.type = "ErrorObject" -> "ERROR_OBJECT"
    [] object.type = "BuiltinFunctionObject" -> "BUILTIN_OBJECT"
    [] object.type = "ArrayObject" -> "ARRAY_OBJECT"
    [] object.type = "HashObject" -> "ARRAY_OBJECT"
    [] object.type = "CompiledFunctionObject" -> "COMPILED_FUNCTION_OBJECT"
    [] object.type = "ClosureObject" -> "CLOSURE_OBJECT"
    [] object.type = "FunctionObject" -> "FUNCTION_OBJECT"
    [] object.type = "ReturnValueObject" -> "RETURN_VALUE"

\* instanceof Hashable
IsHashable(object) == object.type \in {"IntegerObject", "BooleanObject", "StringObject"}

nativeBooleanToBooleanObject(value) == IF value THEN TRUE_OBJECT ELSE FALSE_OBJECT

\* object === NULL || object === FALSE_OBJECT, on identities.
isTruthy(object) == ~(object.ref = NULL.ref \/ object.ref = FALSE_OBJECT.ref)

\* An Error: the message template and the values formatted into it.
Error(message, numbers, words) == [message |-> message, numbers |-> numbers, words |-> words]
NoError == Error("", <<>>, <<>>)
\* A TypeError raised by the JavaScript runtime itself (strict mode: ES modules).
TypeError(what) == Error("TypeError", <<>>, <<what>>)

(***************************************************************************)
(* symbolTable.ts.  `tabs` is the collection of SymbolTable objects;       *)
(* a table is named by its position in it, and outer = 0 is no outer.      *)
(***************************************************************************)
SymbolScope == [Global |-> "GLOBAL", Local |-> "LOCAL", BuiltIn |-> "BUILTIN", Free |-> "FREE"]

Symbol(name, scope, index) == [name |-> name, scope |-> scope, index |-> index]
NoSymbol == Symbol("", "", -1)

\* new SymbolTable(outer)
SymbolTable(outer) ==
  [outer |-> outer, store |-> <<>>, freeSymbols |-> <<>>, numberDefinitions |-> 0]

\* Map.set
MapSet(map, key, value) ==
  [k \in DOMAIN map \cup {key} |-> IF k = key THEN value ELSE map[k]]

\* A variant with one counter for all the tables.
defineCountingAll(tabs, t, name) ==
  LET symbol == Symbol(name,
                       IF tabs[t].outer # 0 THEN SymbolScope.Local ELSE SymbolScope.Global,
                       SumSeq([u \in 1..Len(tabs) |-> tabs[u].numberDefinitions]))
  IN [tables |-> [tabs EXCEPT ![t].store = MapSet(@, name, symbol),
                              ![t].numberDefinitions = @ + 1],
      symbol |-> symbol]

define(tabs, t, name) ==
  LET symbol == Symbol(name,
                       IF tabs[t].outer # 0 THEN SymbolScope.Local ELSE SymbolScope.Global,
                       tabs[t].numberDefinitions)
  IN [tables |-> [tabs EXCEPT ![t].store = MapSet(@, name, symbol),
                              ![t].numberDefinitions = @ + 1],
      symbol |-> symbol]

defineBuiltIn(tabs, t, index, name) ==
  LET symbol == Symbol(name, SymbolScope.BuiltIn, index)
  IN [tables |-> [tabs EXCEPT ![t].store = MapSet(@, name, symbol)], symbol |-> symbol]

\* A variant that stores the Free symbol and does not list the original.
defineFreeUnlisted(tabs, t, original) ==
  LET symbol == Symbol(original.name, SymbolScope.Free, Len(tabs[t].freeSymbols))
  IN [tables |-> [tabs EXCEPT ![t].store = MapSet(@, original.name, symbol)],
      symbol |-> symbol]

\* A variant that lists the original and does not store the Free symbol.
defineFreeUnstored(tabs, t, original) ==
  LET symbol == Symbol(original.name, SymbolScope.Free, Len(tabs[t].freeSymbols))
  IN [tables |-> [tabs EXCEPT ![t].freeSymbols = Append(@, original)],
      symbol |-> symbol]

\* A variant that takes the index after the push as it is (length, not length - 1).
defineFreeAtLength(tabs, t, original) ==
  LET symbol == Symbol(original.name, SymbolScope.Free, Len(tabs[t].freeSymbols) + 1)
  IN [tables |-> [tabs EXCEPT ![t].freeSymbols = Append(@, original),
                              ![t].store = MapSet(@, original.name, symbol)],
      symbol |-> symbol]

defineFree(tabs, t, original) ==
  LET symbol == Symbol(original.name, SymbolScope.Free, Len(tabs[t].freeSymbols))
  IN [tables |-> [tabs EXCEPT ![t].freeSymbols = Append(@, original),
                              ![t].store = MapSet(@, original.name, symbol)],
      symbol |-> symbol]

\* A variant that lets only Global symbols through.
OnlyGlobalWithoutCapture(symbol) == symbol.scope = SymbolScope.Global

\* resolvedOuter.scope === Global || resolvedOuter.scope === BuiltIn
ReachableWithoutCapture(symbol) ==
  symbol.scope = SymbolScope.Global \/ symbol.scope = SymbolScope.BuiltIn

\* resolve(name) on table t: the tables afterwards (resolving may capture), whether a
\* symbol was found (the source returns false when not) and the symbol.
RECURSIVE resolve(_, _, _)
resolve(tabs, t, name) ==
  IF name \notin DOMAIN tabs[t].store
    THEN IF tabs[t].outer = 0
           THEN [tables |-> tabs, found |-> FALSE, symbol |-> NoSymbol]
           ELSE LET resolvedOuter == resolve(tabs, tabs[t].outer, name)
                IN IF ~resolvedOuter.found THEN resolvedOuter
                   ELSE IF ReachableWithoutCapture(resolvedOuter.symbol) THEN resolvedOuter
                   ELSE LET free == defineFree(resolvedOuter.tables, t, resolvedOuter.symbol)
                        IN [tables |-> free.tables, found |-> TRUE, symbol |-> free.symbol]
    ELSE [tables |-> tabs, found |-> TRUE, symbol |-> tabs[t].store[name]]

(***************************************************************************)
(* ast.ts: the nodes the compiler recognises.  A string (a name, a literal *)
(* text) is its sequence of code units where the compiler or the VM looks  *)
(* inside it, and a TLA+ string where it is only compared.                 *)
(***************************************************************************)
Program(statements) == [node |-> "Program", statements |-> statements]
BlockStatement(statements) == [node |-> "BlockStatement", statements |-> statements]
ExpressionStatement(expression) == [node |-> "ExpressionStatement", expression |-> expression]
LetStatement(name, value) == [node |-> "LetStatement", name |-> name, value |-> value]
ReturnStatement(returnValue) == [node |-> "ReturnStatement", returnValue |-> returnValue]
ReassignStatement(name, value) == [node |-> "ReassignStatement", name |-> name, value |-> value]
WhileExpression(condition, block) ==
  [node |-> "WhileExpression", condition |-> condition, block |-> block]
\* An identifier, with the type and the literal of its token.
Identifier(value) ==
  [node |-> "Identifier", token |-> "IDENT", literal |-> value, value |-> value]
IntegerLiteral(literal, value) == [node |-> "IntegerLiteral", literal |-> literal, value |-> value]
BooleanLiteral(value) == [node |-> "BooleanLiteral", value |-> value]
StringLiteral(literal) == [node |-> "StringLiteral", literal |-> literal]
PrefixExpression(operator, right) ==
  [node |-> "PrefixExpression", operator |-> operator, right |-> right]
InfixExpression(operator, left, right) ==
  [node |-> "InfixExpression", operator |-> operator, left |-> left, right |-> right]
\* alternative: <<>> for null, <<block>> otherwise.
IfExpression(condition, consequence, alternative) ==
  [node |-> "IfExpression", condition |-> condition, consequence |-> consequence,
   alternative |-> alternative]
FunctionLiteral(parameters, body) ==
  [node |-> "FunctionLiteral", parameters |-> parameters, body |-> body]
CallExpression(function, arguments) ==
  [node |-> "CallExpression", function |-> function, arguments |-> arguments]
ArrayLiteral(elements) == [node |-> "ArrayLiteral", elements |-> elements]
\* pairs: the entries of the Map, in insertion order, each <<key, value>>.
HashLiteral(pairs) == [node |-> "HashLiteral", pairs |-> pairs]
IndexExpression(left, index) == [node |-> "IndexExpression", left |-> left, index |-> index]

\* The text of an operator token.
OperatorText(operator) ==
  CASE operator = "+" -> <<43>>
    [] operator = "-" -> <<45>>
    [] operator = "*" -> <<42>>
    [] operator = "/" -> <<47>>
    [] operator = "<" -> <<60>>
    [] operator = ">" -> <<62>>
    [] operator = "!" -> <<33>>
    [] operator = "==" -> <<61, 61>>
    [] operator = "!=" -> <<33, 61>>

\* asString() of a hash key: the token's text for an integer, a string or a boolean literal,
\* (<left> <operator> <right>) for an infix and (<operator><right>) for a prefix
\* expression.
RECURSIVE asString(_)
asString(node) ==
  CASE node.node = "InfixExpression" ->
         <<40>> \o asString(node.left) \o <<32>> \o OperatorText(node.operator) \o <<32>>
           \o asString(node.right) \o <<41>>
    [] node.node = "PrefixExpression" ->
         <<40>> \o OperatorText(node.operator) \o asString(node.right) \o <<41>>
    [] node.node = "BooleanLiteral" ->
         (IF node.value THEN <<116, 114, 117, 101>> ELSE <<102, 97, 108, 115, 101>>)
    [] OTHER -> node.literal

\* a.localeCompare(b) < 0 or = 0, for texts that differ first at a digit or at a
\* lower-case letter, which collate in the order of their code units.
RECURSIVE LocaleLessOrEqual(_, _)
LocaleLessOrEqual(a, b) ==
  IF a = <<>> THEN TRUE
  ELSE IF b = <<>> THEN FALSE
  ELSE IF Head(a) # Head(b) THEN Head(a) < Head(b)
  ELSE LocaleLessOrEqual(Tail(a), Tail(b))

\* A variant that leaves the pairs in the order of the Map.
KeepPairs(pairs) == pairs

\* pairs.sort((a, b) => a[0].asString().localeCompare(b[0].asString())): stable.
RECURSIVE InsertPair(_, _)
InsertPair(sorted, pair) ==
  IF sorted = <<>> THEN <<pair>>
  ELSE IF LocaleLessOrEqual(asString(Head(sorted)[1]), asString(pair[1]))
         THEN <<Head(sorted)>> \o InsertPair(Tail(sorted), pair)
         ELSE <<pair>> \o sorted

RECURSIVE SortPairs(_)
SortPairs(pairs) ==
  IF pairs = <<>> THEN <<>>
  ELSE InsertPair(SortPairs(SubSeq(pairs, 1, Len(pairs) - 1)), pairs[Len(pairs)])

(***************************************************************************)
(* compiler.ts.  A Compiler object is a record; `thrown` holds the Error   *)
(* that unwound compile(), after which no method runs any more.            *)
(***************************************************************************)
EmittedInstruction(opcode, position) == [opcode |-> opcode, position |-> position]

\* new CompilationScope().  `aliased` tells that lastInstruction and
\* previousInstruction are one object (after removeLastPop, until the next emit).
CompilationScope ==
  [instructions |-> <<>>,
   lastInstruction |-> EmittedInstruction(Opcode.OpConstant, -1),
   previousInstruction |-> EmittedInstruction(Opcode.OpConstant, -1),
   aliased |-> FALSE]

\* new Compiler(symbols, constants); firstRef: the identity counter to go on from.
Compiler(symbolTables, poolConstants, firstRef) ==
  [constants |-> poolConstants, tables |-> symbolTables, symbols |-> 1,
   scopes |-> <<CompilationScope>>, scopeIndex |-> 0, thrown |-> NoError,
   nextRef |-> firstRef]

Throw(c, error) == [c EXCEPT !.thrown = error]
HasThrown(c) == c.thrown # NoError

currentInstructions(c) == c.scopes[c.scopeIndex + 1].instructions

\* A variant that appends to the buffer of the outermost scope.
addInstructionOutermost(c, instruction) ==
  [c EXCEPT !.scopes[1].instructions = concatInstructions(<<@, instruction>>)]

addInstruction(c, instruction) ==
  [c EXCEPT !.scopes[c.scopeIndex + 1].instructions =
              concatInstructions(<<currentInstructions(c), instruction>>)]

setLastInstruction(c, opcode, position) ==
  LET scope == c.scopes[c.scopeIndex + 1]
  IN [c EXCEPT !.scopes[c.scopeIndex + 1] =
        [scope EXCEPT !.previousInstruction = scope.lastInstruction,
                      !.lastInstruction = EmittedInstruction(opcode, position),
                      !.aliased = FALSE]]

\* emit() returns the position of the new instruction: the length before it.
emit(c, op, operands) ==
  IF HasThrown(c) THEN c
  ELSE setLastInstruction(addInstruction(c, make(op, operands)), op,
                          Len(currentInstructions(c)))

\* addConstant() returns the index of the new constant: the length before it.
addConstant(c, object) ==
  IF HasThrown(c) THEN c
  ELSE [c EXCEPT !.constants = Append(@, object), !.nextRef = @ + 1]

lastInstructionIs(c, opcode) ==
  IF Len(currentInstructions(c)) = 0 THEN FALSE
  ELSE c.scopes[c.scopeIndex + 1].lastInstruction.opcode = opcode

removeLastPop(c) ==
  IF HasThrown(c) THEN c
  ELSE LET scope == c.scopes[c.scopeIndex + 1]
       IN [c EXCEPT !.scopes[c.scopeIndex + 1] =
             [scope EXCEPT !.instructions = Slice(@, 0, scope.lastInstruction.position),
                           !.lastInstruction = scope.previousInstruction,
                           !.aliased = TRUE]]

\* instructions[position + i] = newInstruction[i]; a store past the end of a
\* Uint8Array is dropped.
replaceInstruction(c, position, newInstruction) ==
  [c EXCEPT !.scopes[c.scopeIndex + 1].instructions =
     [k \in 1..Len(@) |->
        IF k - 1 >= position /\ k - 1 < position + Len(newInstruction)
          THEN newInstruction[k - position] ELSE @[k]]]

\* A variant that leaves the operand as emitted.
leaveOperand(c, opPosition, operand) == c

\* A variant that appends the re-encoded instruction instead of overwriting.
changeOperandByEmit(c, opPosition, operand) ==
  IF HasThrown(c) THEN c
  ELSE emit(c, ByteAt(currentInstructions(c), opPosition), <<operand>>)

changeOperand(c, opPosition, operand) ==
  IF HasThrown(c) THEN c
  ELSE replaceInstruction(c, opPosition,
                          make(ByteAt(currentInstructions(c), opPosition), <<operand>>))

\* A variant that leaves the Pop.
keepLastPop(c) == c

replaceLastPopWithReturn(c) ==
  IF HasThrown(c) THEN c
  ELSE LET scope == c.scopes[c.scopeIndex + 1]
           replaced == replaceInstruction(c, scope.lastInstruction.position,
                                          make(LaterOpcode.OpReturnValue, <<>>))
       IN [replaced EXCEPT !.scopes[c.scopeIndex + 1] =
             [@ EXCEPT !.lastInstruction.opcode = LaterOpcode.OpReturnValue,
                       !.previousInstruction.opcode =
                          IF scope.aliased THEN LaterOpcode.OpReturnValue ELSE @]]

enterScope(c) ==
  IF HasThrown(c) THEN c
  ELSE [c EXCEPT !.scopes = Append(@, CompilationScope),
                 !.scopeIndex = @ + 1,
                 !.tables = Append(@, SymbolTable(c.symbols)),
                 !.symbols = Len(c.tables) + 1]

\* leaveScope() returns the instructions of the scope it pops.  The symbol table it
\* leaves is referenced by nothing any more and is dropped from the collection.
leaveScope(c) ==
  IF HasThrown(c) THEN c
  ELSE [c EXCEPT !.scopes = SubSeq(@, 1, Len(@) - 1),
                 !.scopeIndex = @ - 1,
                 !.symbols = c.tables[c.symbols].outer,
                 !.tables = SubSeq(@, 1, c.symbols - 1)]

\* this.symbols.define(name)
compilerDefine(c, name) ==
  IF HasThrown(c) THEN c ELSE [c EXCEPT !.tables = define(c.tables, c.symbols, name).tables]

\* numberLocals = this.symbols.store.size
numberLocalsOf(c) == Cardinality(DOMAIN c.tables[c.symbols].store)

\* switch (node.operator) of an infix expression
InfixOpcodes ==
  ("+" :> Opcode.OpAdd) @@ ("-" :> Opcode.OpSub) @@ ("*" :> Opcode.OpMul) @@
  ("/" :> Opcode.OpDiv) @@ ("==" :> Opcode.OpEqual) @@ ("!=" :> Opcode.OpNotEqual) @@
  ("<" :> Opcode.OpGreaterThan) @@ (">" :> Opcode.OpGreaterThan)

RECURSIVE compile(_, _)
RECURSIVE compileAll(_, _, _)
RECURSIVE compilePairs(_, _, _)
RECURSIVE defineAll(_, _, _)

\* for (const statement of statements) this.compile(statement)
compileAll(c, nodes, i) ==
  IF i > Len(nodes) THEN c ELSE compileAll(compile(c, nodes[i]), nodes, i + 1)

compilePairs(c, pairs, i) ==
  IF i > Len(pairs) THEN c
  ELSE compilePairs(compile(compile(c, pairs[i][1]), pairs[i][2]), pairs, i + 1)

defineAll(c, names, i) ==
  IF i > Len(names) THEN c ELSE defineAll(compilerDefine(c, names[i]), names, i + 1)

compileInfixExpression(c, node) ==
  LET shouldInvert == node.operator = "<"
      operands == compile(compile(c, IF shouldInvert THEN node.right ELSE node.left),
                          IF shouldInvert THEN node.left ELSE node.right)
  IN IF HasThrown(operands) THEN operands
     ELSE IF node.operator \in DOMAIN InfixOpcodes
            THEN emit(operands, InfixOpcodes[node.operator], <<>>)
            ELSE Throw(operands, Error("Unknown operator", <<>>, <<node.operator>>))

compilePrefixExpression(c, node) ==
  LET right == compile(c, node.right)
  IN IF HasThrown(right) THEN right
     ELSE CASE node.operator = "!" -> emit(right, Opcode.OpBang, <<>>)
            [] node.operator = "-" -> emit(right, Opcode.OpMinus, <<>>)
            [] OTHER -> Throw(right, Error("Unknown operator", <<>>, <<node.operator>>))

compileIfExpression(c, node) ==
  LET condition == compile(c, node.condition)
      opJumpNotTruthyPosition == Len(currentInstructions(condition))
      jumpNotTruthy == emit(condition, Opcode.OpJumpNotTruthy, <<9999>>)
      consequence == compile(jumpNotTruthy, node.consequence)
      consequenceValue == IF lastInstructionIs(consequence, Opcode.OpPop)
                            THEN removeLastPop(consequence) ELSE consequence
      opJumpPosition == Len(currentInstructions(consequenceValue))
      jump == emit(consequenceValue, Opcode.OpJump, <<9999>>)
      patchedNotTruthy == changeOperand(jump, opJumpNotTruthyPosition,
                                        Len(currentInstructions(jump)))
      alternative == IF node.alternative # <<>>
                       THEN LET block == compile(patchedNotTruthy, node.alternative[1])
                            IN IF lastInstructionIs(block, Opcode.OpPop)
                                 THEN removeLastPop(block) ELSE block
                       ELSE emit(patchedNotTruthy, Opcode.OpNull, <<>>)
  IN IF HasThrown(alternative) THEN alternative
     ELSE changeOperand(alternative, opJumpPosition, Len(currentInstructions(alternative)))

compileIdentifier(c, node) ==
  LET resolved == resolve(c.tables, c.symbols, node.value)
  IN IF ~resolved.found
       THEN Throw(c, Error("Identifier not found", <<>>, <<node.value>>))
       ELSE emit([c EXCEPT !.tables = resolved.tables],
                 IF resolved.symbol.scope = SymbolScope.Local
                   THEN LaterOpcode.OpGetLocal ELSE Opcode.OpGetGlobal,
                 <<resolved.symbol.index>>)

compileLetStatement(c, node) ==
  LET value == compile(c, node.value)
  IN IF HasThrown(value) THEN value
     ELSE LET defined == define(value.tables, value.symbols, node.name)
          IN emit([value EXCEPT !.tables = defined.tables],
                  IF defined.symbol.scope = SymbolScope.Local
                    THEN LaterOpcode.OpSetLocal ELSE Opcode.OpSetGlobal,
                  <<defined.symbol.index>>)

compileFunctionLiteral(c, node) ==
  LET body == compile(defineAll(enterScope(c), node.parameters, 1), node.body)
      returning == IF lastInstructionIs(body, Opcode.OpPop)
                     THEN replaceLastPopWithReturn(body) ELSE body
      returned == IF ~lastInstructionIs(returning, LaterOpcode.OpReturnValue)
                    THEN emit(returning, LaterOpcode.OpReturn, <<>>) ELSE returning
  IN IF HasThrown(returned) THEN returned
     ELSE LET compiledFunction ==
                CompiledFunctionObject(currentInstructions(returned), numberLocalsOf(returned),
                                       Len(node.parameters), returned.nextRef)
              outer == leaveScope(returned)
          IN emit(addConstant(outer, compiledFunction), Opcode.OpConstant,
                  <<Len(outer.constants)>>)

compile(c, node) ==
  IF HasThrown(c) THEN c
  ELSE CASE node.node \in {"Program", "BlockStatement"} -> compileAll(c, node.statements, 1)
         [] node.node = "ExpressionStatement" ->
              emit(compile(c, node.expression), Opcode.OpPop, <<>>)
         [] node.node = "InfixExpression" -> compileInfixExpression(c, node)
         [] node.node = "PrefixExpression" -> compilePrefixExpression(c, node)
         [] node.node = "IntegerLiteral" ->
              emit(addConstant(c, IntegerObject(node.value, c.nextRef)), Opcode.OpConstant,
                   <<Len(c.constants)>>)
         [] node.node = "BooleanLiteral" ->
              emit(c, IF node.value THEN Opcode.OpTrue ELSE Opcode.OpFalse, <<>>)
         [] node.node = "StringLiteral" ->
              emit(addConstant(c, StringObject(node.literal, c.nextRef)), Opcode.OpConstant,
                   <<Len(c.constants)>>)
         [] node.node = "IfExpression" -> compileIfExpression(c, node)
         [] node.node = "Identifier" -> compileIdentifier(c, node)
         [] node.node = "LetStatement" -> compileLetStatement(c, node)
         [] node.node = "ArrayLiteral" ->
              emit(compileAll(c, node.elements, 1), Opcode.OpArray, <<Len(node.elements)>>)
         [] node.node = "HashLiteral" ->
              emit(compilePairs(c, SortPairs(node.pairs), 1), Opcode.OpHash,
                   <<Len(node.pairs) * 2>>)
         [] node.node = "IndexExpression" ->
              emit(compile(compile(c, node.left), node.index), Opcode.OpIndex, <<>>)
         [] node.node = "FunctionLiteral" -> compileFunctionLiteral(c, node)
         [] node.node = "ReturnStatement" ->
              emit(compile(c, node.returnValue), LaterOpcode.OpReturnValue, <<>>)
         [] node.node = "CallExpression" ->
              emit(compileAll(compile(c, node.function), node.arguments, 1),
                   LaterOpcode.OpCall, <<Len(node.arguments)>>)
         [] OTHER -> Throw(c, Error("Not implemented", <<>>, <<>>))

\* bytecode()
Bytecode(instructions, poolConstants) ==
  [instructions |-> instructions, constants |-> poolConstants]
bytecode(c) == Bytecode(currentInstructions(c), c.constants)

(***************************************************************************)
(* Numbers wider than TLC's integers.  A hash key is a JavaScript number   *)
(* that may exceed 32 bits: Wide(high, low) stands for high * 65536 + low  *)
(* with 0 <= low < 65536, so equal numbers have equal representations.     *)
(***************************************************************************)
Wide(high, low) == [high |-> high + (low \div 65536), low |-> low % 65536]
WideAdd(a, b) == Wide(a.high + b.high, a.low + b.low)
WideOfInt(n) == Wide(n \div 65536, n % 65536)

\* hash = (hash << 5) - hash + code; hash |= 0: one step of the 32-bit string hash,
\* on the bit pattern of hash held as Wide with 0 <= high < 65536.
HashStep(hash, code) ==
  LET low == 31 * hash.low + code
  IN [high |-> (31 * hash.high + (low \div 65536)) % 65536, low |-> low % 65536]

RECURSIVE HashChars(_, _)
HashChars(hash, chars) ==
  IF chars = <<>> THEN hash ELSE HashChars(HashStep(hash, Head(chars)), Tail(chars))

\* The signed 32-bit number of a bit pattern (the result of `| 0`).
ToInt32(pattern) ==
  IF pattern.high >= 32768 THEN [pattern EXCEPT !.high = @ - 65536] ELSE pattern

\* hashString(text): not among the sources; taken to be the string hash that
\* StringObject.hashKey computes inline.
hashString(chars) == ToInt32(HashChars(Wide(0, 0), chars))

\* The code units of the ObjectType names that are hashed.
ObjectTypeChars ==
  [ INTEGER |-> <<73, 78, 84, 69, 71, 69, 82>>,
    BOOLEAN |-> <<66, 79, 79, 76, 69, 65, 78>>,
    STRING |-> <<83, 84, 82, 73, 78, 71>> ]

\* hashKey() of the three Hashable classes.
hashKey(object) ==
  CASE object.type = "IntegerObject" ->
         WideAdd(hashString(ObjectTypeChars.INTEGER), WideOfInt(object.value))
    [] object.type = "BooleanObject" ->
         WideAdd(hashString(ObjectTypeChars.BOOLEAN), WideOfInt(IF object.bool THEN 1 ELSE 0))
    [] object.type = "StringObject" ->
         WideAdd(hashString(ObjectTypeChars.STRING), ToInt32(HashChars(Wide(0, 0), object.str)))

(***************************************************************************)
(* builtins.ts: the builtin functions.  The result of applying one, and    *)
(* whether it created a new object (which takes the identity `ref`).       *)
(***************************************************************************)
WrongNumberOfArguments(got, want) ==
  ErrorObject(Error("wrong number of arguments. got=%, want=%", <<got, want>>, <<>>))

BuiltinResult(result, allocated) == [result |-> result, allocated |-> allocated]

LEN(args, ref) ==
  IF Len(args) # 1 THEN BuiltinResult(WrongNumberOfArguments(Len(args), 1), FALSE)
  ELSE IF args[1].type = "StringObject"
         THEN BuiltinResult(IntegerObject(Len(args[1].str), ref), TRUE)
  ELSE IF args[1].type = "ArrayObject"
         THEN BuiltinResult(IntegerObject(Len(args[1].elements), ref), TRUE)
  ELSE BuiltinResult(ErrorObject(Error("argument to 'len' not supported, got %", <<>>,
                                       <<objectType(args[1])>>)), FALSE)

FIRST(args, ref) ==
  IF Len(args) # 1 THEN BuiltinResult(WrongNumberOfArguments(Len(args), 1), FALSE)
  ELSE IF args[1].type # "ArrayObject"
         THEN BuiltinResult(ErrorObject(Error("argument to 'first' must be ARRAY, got %", <<>>,
                                              <<objectType(args[1])>>)), FALSE)
  ELSE IF Len(args[1].elements) > 0 THEN BuiltinResult(args[1].elements[1], FALSE)
  ELSE BuiltinResult(NULL, FALSE)

LAST(args, ref) ==
  IF Len(args) # 1 THEN BuiltinResult(WrongNumberOfArguments(Len(args), 1), FALSE)
  ELSE IF args[1].type # "ArrayObject"
         THEN BuiltinResult(ErrorObject(Error("argument to 'last' must be ARRAY, got %", <<>>,
                                              <<objectType(args[1])>>)), FALSE)
  ELSE IF Len(args[1].elements) > 0
         THEN BuiltinResult(args[1].elements[Len(args[1].elements)], FALSE)
  ELSE BuiltinResult(NULL, FALSE)

REST(args, ref) ==
  IF Len(args) # 1 THEN BuiltinResult(WrongNumberOfArguments(Len(args), 1), FALSE)
  ELSE IF args[1].type # "ArrayObject"
         THEN BuiltinResult(ErrorObject(Error("argument to 'rest' must be ARRAY, got %", <<>>,
                                              <<objectType(args[1])>>)), FALSE)
  ELSE IF Len(args[1].elements) > 0
         THEN BuiltinResult(ArrayObject(Tail(args[1].elements), ref), TRUE)
  ELSE BuiltinResult(NULL, FALSE)

PUSH(args, ref) ==
  IF Len(args) # 2 THEN BuiltinResult(WrongNumberOfArguments(Len(args), 2), FALSE)
  ELSE IF args[1].type # "ArrayObject"
         THEN BuiltinResult(ErrorObject(Error("argument to 'push' must be ARRAY, got %", <<>>,
                                              <<objectType(args[1])>>)), FALSE)
  ELSE BuiltinResult(ArrayObject(Append(args[1].elements, args[2]), ref), TRUE)

\* puts prints its arguments (not modelled: the console is no part of the state).
PUTS(args, ref) == BuiltinResult(NULL, FALSE)

\* callee.fn(...args)
ApplyBuiltin(callee, args, ref) ==
  CASE callee.name = "len" -> LEN(args, ref)
    [] callee.name = "first" -> FIRST(args, ref)
    [] callee.name = "last" -> LAST(args, ref)
    [] callee.name = "rest" -> REST(args, ref)
    [] callee.name = "push" -> PUSH(args, ref)
    [] callee.name = "puts" -> PUTS(args, ref)

(***************************************************************************)
(* vm.ts: the virtual machine.  A VM is the record of its fields; `thrown` *)
(* holds the Error that ended run(), and every operation on a VM that has  *)
(* thrown is skipped, as the exception unwinds run().                      *)
(***************************************************************************)
STACK_SIZE == 2048
GLOBALS_SIZE == 65535
CONSTANTS_SIZE == 65535
MAX_FRAMES == 1024

\* frame.ts
Frame(closure, basePointer) ==
  [closure |-> closure, basePointer |-> basePointer, instructionPointer |-> -1]

instructions(frame) == frame.closure.fn.instructions

\* new VM(bytecode): the constructor.  The arrays are filled with null and sealed;
\* only the slots written since are kept.
VM(code, ref) ==
  [ constants |-> code.constants,
    globals |-> <<>>,
    stack |-> <<>>,
    stackPointer |-> 0,
    frames |-> (0 :> Frame(ClosureObject(CompiledFunctionObject(code.instructions, 0, 0, ref),
                                         <<>>, ref + 1), 0)),
    framesIndex |-> 1,
    thrown |-> NoError,
    nextRef |-> ref + 2 ]

\* array[i] of a null-filled array; undefined (outside the array) reads like null:
\* neither is an object of any class.
ArrayGet(array, i) == IF i \in DOMAIN array THEN array[i] ELSE JsNull

\* this.constants[i]
ConstantAt(vm, i) == IF i < Len(vm.constants) THEN vm.constants[i + 1] ELSE JsNull

\* Whether a value is an object, so that a method can be called on it.
IsObject(value) == value.type # "null"

HasFailed(vm) == vm.thrown # NoError
throw(vm, error) == IF HasFailed(vm) THEN vm ELSE [vm EXCEPT !.thrown = error]

\* The object a `new` creates takes the next identity.
Allocate(vm) == [vm EXCEPT !.nextRef = @ + 1]

\* array[i] = value on a sealed array: outside 0..size-1 the store would add a
\* property, which strict-mode code answers with a TypeError.
InArray(i, size) == i >= 0 /\ i < size

push(vm, object) ==
  IF HasFailed(vm) THEN vm
  ELSE IF vm.stackPointer >= STACK_SIZE THEN throw(vm, Error("stack overflow", <<>>, <<>>))
  ELSE IF ~InArray(vm.stackPointer, STACK_SIZE) THEN throw(vm, TypeError("stack"))
  ELSE [vm EXCEPT !.stack = (vm.stackPointer :> object) @@ @, !.stackPointer = @ + 1]

\* A variant that clears the slot it pops.
popAndClear(vm) ==
  IF HasFailed(vm) THEN vm
  ELSE IF vm.stackPointer = 0 THEN throw(vm, Error("stack underflow", <<>>, <<>>))
  ELSE [vm EXCEPT !.stack = (vm.stackPointer - 1 :> JsNull) @@ @, !.stackPointer = @ - 1]

\* The value pop() returns, and the VM it leaves.
popped(vm) == ArrayGet(vm.stack, vm.stackPointer - 1)
pop(vm) ==
  IF HasFailed(vm) THEN vm
  ELSE IF vm.stackPointer = 0 THEN throw(vm, Error("stack underflow", <<>>, <<>>))
  ELSE [vm EXCEPT !.stackPointer = @ - 1]

\* this.stack.slice(from, to): a negative bound counts from the end of the array.
SliceBound(i) == IF i < 0 THEN Max(STACK_SIZE + i, 0) ELSE (IF i > STACK_SIZE THEN STACK_SIZE ELSE i)
StackSlice(vm, from, to) ==
  [k \in 1..(SliceBound(to) - SliceBound(from)) |-> ArrayGet(vm.stack, SliceBound(from) + k - 1)]

currentFrame(vm) == vm.frames[vm.framesIndex - 1]

\* this.currentFrame().instructionPointer += n
Advance(vm, n) ==
  IF HasFailed(vm) THEN vm
  ELSE [vm EXCEPT !.frames[vm.framesIndex - 1].instructionPointer = @ + n]

\* this.currentFrame().instructionPointer = jumpToIndex - 1
JumpTo(vm, jumpToIndex) ==
  IF HasFailed(vm) THEN vm
  ELSE [vm EXCEPT !.frames[vm.framesIndex - 1].instructionPointer = jumpToIndex - 1]

pushFrame(vm, frame) ==
  IF HasFailed(vm) THEN vm
  ELSE IF ~InArray(vm.framesIndex, MAX_FRAMES) THEN throw(vm, TypeError("frames"))
  ELSE [vm EXCEPT !.frames = (vm.framesIndex :> frame) @@ @, !.framesIndex = @ + 1]

\* The frame popFrame() returns, and the VM it leaves.
poppedFrame(vm) == vm.frames[vm.framesIndex - 1]
popFrame(vm) == IF HasFailed(vm) THEN vm ELSE [vm EXCEPT !.framesIndex = @ - 1]

TypeMismatch(left, right) ==
  Error("type mismatch: % + %", <<>>, <<objectType(left), objectType(right)>>)

\* left.value / right.value: a JavaScript number.  It is whole when the divisor is not
\* 0 and divides the dividend; otherwise it is the fraction itself (Infinity or NaN for
\* a divisor 0).
JsDivide(a, b) ==
  IF b # 0 /\ a % (IF b < 0 THEN -b ELSE b) = 0
    THEN [whole |-> TRUE, value |-> (IF b < 0 THEN -(a \div (-b)) ELSE a \div b)]
    ELSE [whole |-> FALSE, numerator |-> a, denominator |-> b]

\* new IntegerObject(number): the object holds a whole number in `value` as every other
\* IntegerObject does, and a number that is not whole as its fraction.
NumberObject(number, ref) ==
  IF number.whole THEN IntegerObject(number.value, ref)
  ELSE [type |-> "IntegerObject", numerator |-> number.numerator,
        denominator |-> number.denominator, ref |-> ref]

\* Number.isInteger(object.value)
IsWhole(object) == "value" \in DOMAIN object

executeBinaryIntegerOperation(vm, opcode, left, right) ==
  CASE opcode = Opcode.OpAdd -> push(Allocate(vm), IntegerObject(left.value + right.value, vm.nextRef))
    [] opcode = Opcode.OpSub -> push(Allocate(vm), IntegerObject(left.value - right.value, vm.nextRef))
    [] opcode = Opcode.OpMul -> push(Allocate(vm), IntegerObject(left.value * right.value, vm.nextRef))
    [] opcode = Opcode.OpDiv ->
         push(Allocate(vm), NumberObject(JsDivide(left.value, right.value), vm.nextRef))

executeBinaryStringOperation(vm, opcode, left, right) ==
  IF opcode # Opcode.OpAdd
    THEN throw(vm, Error("operation % unsupported for string literals", <<opcode>>, <<>>))
    ELSE push(Allocate(vm), StringObject(left.str \o right.str, vm.nextRef))

\* const right = this.pop(); const left = this.pop(); as both binary operations
\* and comparisons begin.
RightOperand(vm) == popped(vm)
LeftOperand(vm) == popped(pop(vm))

executeBinaryOperation(vm, opcode) ==
  LET right == RightOperand(vm)
      left == LeftOperand(vm)
      after == pop(pop(vm))
  IN IF HasFailed(after) THEN after
     ELSE IF ~IsObject(left) \/ ~IsObject(right) THEN throw(after, TypeError("objectType"))
     ELSE IF objectType(left) # objectType(right) THEN throw(after, TypeMismatch(left, right))
     ELSE IF left.type = "IntegerObject" /\ right.type = "IntegerObject"
            THEN executeBinaryIntegerOperation(after, opcode, left, right)
     ELSE IF left.type = "StringObject" /\ right.type = "StringObject"
            THEN executeBinaryStringOperation(after, opcode, left, right)
     ELSE throw(after, Error("operation unsupported for % and %", <<>>,
                             <<objectType(left), objectType(right)>>))

executeIntegerComparison(vm, opcode, left, right) ==
  CASE opcode = Opcode.OpEqual -> push(vm, nativeBooleanToBooleanObject(left.value = right.value))
    [] opcode = Opcode.OpNotEqual -> push(vm, nativeBooleanToBooleanObject(left.value # right.value))
    [] opcode = Opcode.OpGreaterThan -> push(vm, nativeBooleanToBooleanObject(left.value > right.value))

\* A variant without the comparison of the two objectType()s.
executeComparisonOfAnyTypes(vm, opcode) ==
  LET right == RightOperand(vm)
      left == LeftOperand(vm)
      after == pop(pop(vm))
  IN IF HasFailed(after) THEN after
     ELSE IF ~IsObject(left) \/ ~IsObject(right) THEN throw(after, TypeError("objectType"))
     ELSE IF left.type = "IntegerObject" /\ right.type = "IntegerObject"
            THEN executeIntegerComparison(after, opcode, left, right)
     ELSE CASE opcode = Opcode.OpEqual -> push(after, nativeBooleanToBooleanObject(left.ref = right.ref))
            [] opcode = Opcode.OpNotEqual -> push(after, nativeBooleanToBooleanObject(left.ref # right.ref))
            [] opcode = Opcode.OpGreaterThan -> push(after, nativeBooleanToBooleanObject(FALSE))

\* On objects, === compares identities and > compares the two "[object Object]"
\* strings the operands convert to, which is false.
executeComparison(vm, opcode) ==
  LET right == RightOperand(vm)
      left == LeftOperand(vm)
      after == pop(pop(vm))
  IN IF HasFailed(after) THEN after
     ELSE IF ~IsObject(left) \/ ~IsObject(right) THEN throw(after, TypeError("objectType"))
     ELSE IF objectType(left) # objectType(right) THEN throw(after, TypeMismatch(left, right))
     ELSE IF left.type = "IntegerObject" /\ right.type = "IntegerObject"
            THEN executeIntegerComparison(after, opcode, left, right)
     ELSE CASE opcode = Opcode.OpEqual -> push(after, nativeBooleanToBooleanObject(left.ref = right.ref))
            [] opcode = Opcode.OpNotEqual -> push(after, nativeBooleanToBooleanObject(left.ref # right.ref))
            [] opcode = Opcode.OpGreaterThan -> push(after, nativeBooleanToBooleanObject(FALSE))

\* A variant that accepts every number of arguments.
AnyArity(callee, numberOfArguments) == TRUE

\* callee.fn.numberParameters !== numberOfArguments, negated
ArityMatches(callee, numberOfArguments) == callee.fn.numberParameters = numberOfArguments

WrongArity(callee, numberOfArguments) ==
  Error("wrong number of arguments: want=%, got=%",
        <<callee.fn.numberParameters, numberOfArguments>>, <<>>)

\* frame.basePointer + callee.fn.numberLocals
StackPointerOfCall(frame, callee) == frame.basePointer + callee.fn.numberLocals

\* A variant whose frame holds a closure that takes its free values again, from the
\* bottom of the stack as it is at the call.
callClosureCapturing(vm, callee, numberOfArguments) ==
  LET frame == Frame([callee EXCEPT !.free = [i \in 1..Len(@) |-> ArrayGet(vm.stack, i - 1)]],
                     vm.stackPointer - numberOfArguments)
      pushed == pushFrame(vm, frame)
  IN IF HasFailed(pushed) THEN pushed
     ELSE [pushed EXCEPT !.stackPointer = StackPointerOfCall(frame, callee)]

callClosure(vm, callee, numberOfArguments) ==
  IF ~ArityMatches(callee, numberOfArguments)
    THEN throw(vm, WrongArity(callee, numberOfArguments))
    ELSE LET frame == Frame(callee, vm.stackPointer - numberOfArguments)
             pushed == pushFrame(vm, frame)
         IN IF HasFailed(pushed) THEN pushed
            ELSE [pushed EXCEPT !.stackPointer = StackPointerOfCall(frame, callee)]

\* The arguments and the result of the builtin that callBuiltin applies.
BuiltinArguments(vm, numberOfArguments) ==
  StackSlice(vm, vm.stackPointer - numberOfArguments, vm.stackPointer)
BuiltinApplied(vm, callee, numberOfArguments) ==
  ApplyBuiltin(callee, BuiltinArguments(vm, numberOfArguments), vm.nextRef)

\* A variant that pushes whatever the builtin returns.
callBuiltinPushing(vm, callee, numberOfArguments) ==
  LET applied == BuiltinApplied(vm, callee, numberOfArguments)
      moved == [vm EXCEPT !.stackPointer = @ - (numberOfArguments - 1),
                          !.nextRef = IF applied.allocated THEN @ + 1 ELSE @]
  IN push(moved, applied.result)

callBuiltin(vm, callee, numberOfArguments) ==
  LET applied == BuiltinApplied(vm, callee, numberOfArguments)
      moved == [vm EXCEPT !.stackPointer = @ - (numberOfArguments - 1),
                          !.nextRef = IF applied.allocated THEN @ + 1 ELSE @]
  IN IF applied.result.type = "ErrorObject"
       THEN throw(moved, applied.result.message)
       ELSE push(moved, applied.result)

\* this.stack[this.stackPointer - 1 - numberOfArguments]
Callee(vm, numberOfArguments) == ArrayGet(vm.stack, vm.stackPointer - 1 - numberOfArguments)

executeCall(vm, numberOfArguments) ==
  LET callee == Callee(vm, numberOfArguments)
  IN CASE callee.type = "ClosureObject" -> callClosure(vm, callee, numberOfArguments)
       [] callee.type = "BuiltinFunctionObject" -> callBuiltin(vm, callee, numberOfArguments)
       [] OTHER -> throw(vm, Error("calling non-function and non-builtin", <<>>, <<>>))

\* A variant that takes the values from the top of the stack down.
FreeVariablesFromTop(vm, numberFreeVariables) ==
  [i \in 1..numberFreeVariables |-> ArrayGet(vm.stack, vm.stackPointer - i)]

\* freeVariables of pushClosure: stack[sp - n + i] for i = 0 .. n - 1
FreeVariables(vm, numberFreeVariables) ==
  [i \in 1..numberFreeVariables |->
     ArrayGet(vm.stack, vm.stackPointer - numberFreeVariables + i - 1)]

pushClosure(vm, constIndex, numberFreeVariables) ==
  LET constant == ConstantAt(vm, constIndex)
  IN IF HasFailed(vm) THEN vm
     ELSE IF ~IsObject(constant) THEN throw(vm, TypeError("objectType"))
     ELSE IF constant.type # "CompiledFunctionObject"
            THEN throw(vm, Error("not a function: %", <<>>, <<objectType(constant)>>))
     ELSE push([vm EXCEPT !.stackPointer = @ - numberFreeVariables, !.nextRef = @ + 1],
               ClosureObject(constant, FreeVariables(vm, numberFreeVariables), vm.nextRef))

\* A variant that keeps the callee's slot.
StackPointerAtBase(frame) == frame.basePointer

\* opReturnValuePoppedFrame.basePointer - 1
StackPointerOfReturn(frame) == frame.basePointer - 1

\* The tail OpReturnValue and OpReturn share: pop the frame, reset the stack
\* pointer, push the value.
returnToCaller(vm, value) ==
  IF HasFailed(vm) THEN vm
  ELSE push([popFrame(vm) EXCEPT !.stackPointer = StackPointerOfReturn(poppedFrame(vm))], value)

\* A Map<number, { key, value }>: its entries in insertion order, as a Map keeps
\* them; set() of a key already there replaces the value where the entry stands.
PairsHas(pairs, hash) == \E i \in 1..Len(pairs) : pairs[i].hash = hash
PairsGet(pairs, hash) == pairs[CHOOSE i \in 1..Len(pairs) : pairs[i].hash = hash].pair
PairsSet(pairs, hash, pair) ==
  IF PairsHas(pairs, hash)
    THEN [pairs EXCEPT ![CHOOSE i \in 1..Len(pairs) : pairs[i].hash = hash] =
            [hash |-> hash, pair |-> pair]]
    ELSE Append(pairs, [hash |-> hash, pair |-> pair])

\* hash.set(hashKey, { key, value }) for elements[i], elements[i + 1], i = at, at + 2, ...
\* The result is the Map, or the Error thrown at the first key that is not Hashable.
RECURSIVE HashPairs(_, _, _)
HashPairs(elements, at, map) ==
  IF at > Len(elements) THEN [thrown |-> NoError, pairs |-> map]
  ELSE LET key == elements[at]
           value == IF at + 1 <= Len(elements) THEN elements[at + 1] ELSE JsNull
       IN IF ~IsObject(key) THEN [thrown |-> TypeError("objectType"), pairs |-> map]
          ELSE IF ~IsHashable(key)
            THEN [thrown |-> Error("unusable as hash key: %", <<>>, <<objectType(key)>>),
                  pairs |-> map]
          ELSE HashPairs(elements, at + 2,
                         PairsSet(map, hashKey(key), [key |-> key, value |-> value]))

executeHash(vm, sizeHash) ==
  LET elements == StackSlice(vm, vm.stackPointer - sizeHash, vm.stackPointer)
      moved == [vm EXCEPT !.stackPointer = @ - sizeHash]
      built == HashPairs(elements, 1, <<>>)
  IN IF HasFailed(vm) THEN vm
     ELSE IF built.thrown # NoError THEN throw(moved, built.thrown)
     ELSE push(Allocate(moved), HashObject(built.pairs, vm.nextRef))

executeArray(vm, size) ==
  IF HasFailed(vm) THEN vm
  ELSE push([vm EXCEPT !.stackPointer = @ - size, !.nextRef = @ + 1],
            ArrayObject(StackSlice(vm, vm.stackPointer - size, vm.stackPointer), vm.nextRef))

executeIndex(vm) ==
  LET index == RightOperand(vm)
      left == LeftOperand(vm)
      after == pop(pop(vm))
  IN IF HasFailed(after) THEN after
     ELSE IF left.type = "ArrayObject" /\ index.type = "IntegerObject"
            THEN (IF index.value < 0 \/ index.value > Len(left.elements) - 1
                    THEN push(after, NULL)
                    ELSE push(after, left.elements[index.value + 1]))
     ELSE IF left.type = "HashObject" /\ IsHashable(index)
            THEN (IF PairsHas(left.pairs, hashKey(index))
                    THEN push(after, PairsGet(left.pairs, hashKey(index)).value)
                    ELSE push(after, NULL))
     ELSE IF ~IsObject(index) \/ ~IsObject(left) THEN throw(after, TypeError("objectType"))
     ELSE throw(after, Error("index operator % not supported for: %", <<>>,
                             <<objectType(index), objectType(left)>>))

executeMinus(vm) ==
  LET top == popped(vm)
      after == pop(vm)
  IN IF HasFailed(after) THEN after
     ELSE IF ~IsObject(top) THEN throw(after, TypeError("objectType"))
     ELSE IF top.type # "IntegerObject"
            THEN throw(after, Error("unsupported type for negation: %", <<>>, <<objectType(top)>>))
     ELSE push(Allocate(after), IntegerObject(-top.value, after.nextRef))

executeBang(vm) ==
  push(pop(vm), IF isTruthy(popped(vm)) THEN FALSE_OBJECT ELSE TRUE_OBJECT)

executeJumpNotTruthy(vm, jumpToIndex) ==
  IF ~isTruthy(popped(vm)) THEN JumpTo(pop(vm), jumpToIndex) ELSE Advance(pop(vm), 2)

\* this.globals[globalSetIndex] = this.pop()
executeSetGlobal(vm, globalSetIndex) ==
  LET after == pop(vm)
  IN IF HasFailed(after) THEN after
     ELSE IF ~InArray(globalSetIndex, GLOBALS_SIZE) THEN throw(after, TypeError("globals"))
     ELSE [after EXCEPT !.globals = (globalSetIndex :> popped(vm)) @@ @]

\* this.stack[this.currentFrame().basePointer + localSetIndex] = this.pop()
executeSetLocal(vm, localSetIndex) ==
  LET after == pop(vm)
      slot == currentFrame(vm).basePointer + localSetIndex
  IN IF HasFailed(after) THEN after
     ELSE IF ~InArray(slot, STACK_SIZE) THEN throw(after, TypeError("stack"))
     ELSE [after EXCEPT !.stack = (slot :> popped(vm)) @@ @]

\* Object.values(builtinRecord)[builtinIndex]
executeGetBuiltin(vm, builtinIndex) ==
  IF builtinIndex >= Len(BuiltinNames)
    THEN throw(vm, Error("builtin not found at index: %", <<builtinIndex>>, <<>>))
    ELSE push(vm, BuiltinFunctionObject(builtinIndex))

\* currentClosure.free[freeIndex]
executeGetFree(vm, freeIndex) ==
  LET free == currentFrame(vm).closure.free
  IN push(vm, IF freeIndex < Len(free) THEN free[freeIndex + 1] ELSE JsNull)

(***************************************************************************)
(* environment.ts and evaluator.ts: the tree-walking evaluator.  The       *)
(* Environment objects live in `heap.environments` and are named by their  *)
(* position in it (outer = 0 is no outer); `heap.nextRef` is the identity  *)
(* of the next object created.  Every function gives its result and the    *)
(* heap it leaves.                                                         *)
(***************************************************************************)
\* new Environment(outer)
Environment(outer) == [store |-> <<>>, outer |-> outer]

Heap(environments, ref) == [environments |-> environments, nextRef |-> ref]
Outcome(result, heap) == [result |-> result, heap |-> heap]

\* The heap after one `new` of an object.
Created(heap) == [heap EXCEPT !.nextRef = @ + 1]

\* environment.get(name); undefined reads like null.
RECURSIVE EnvironmentGet(_, _, _)
EnvironmentGet(environments, environment, name) ==
  IF name \in DOMAIN environments[environment].store
    THEN environments[environment].store[name]
  ELSE IF environments[environment].outer # 0
    THEN EnvironmentGet(environments, environments[environment].outer, name)
  ELSE JsNull

\* environment.setOnCurrent(name, value)
setOnCurrent(heap, environment, name, value) ==
  [heap EXCEPT !.environments[environment].store = MapSet(@, name, value)]

\* A variant that stops at the first environment that binds the name.
RECURSIVE setOnNearest(_, _, _, _)
setOnNearest(heap, environment, name, value) ==
  IF name \in DOMAIN heap.environments[environment].store
    THEN setOnCurrent(heap, environment, name, value)
  ELSE IF heap.environments[environment].outer # 0
    THEN setOnNearest(heap, heap.environments[environment].outer, name, value)
  ELSE heap

\* environment.setOnClosest(name, value): the store of this environment if it has the
\* name, and then this.outer?.setOnClosest(name, value) in either case.
RECURSIVE setOnClosest(_, _, _, _)
setOnClosest(heap, environment, name, value) ==
  LET here == IF name \in DOMAIN heap.environments[environment].store
                THEN setOnCurrent(heap, environment, name, value) ELSE heap
  IN IF heap.environments[environment].outer # 0
       THEN setOnClosest(here, heap.environments[environment].outer, name, value)
       ELSE here

isError(object) == object.type = "ErrorObject"

evaluateBangOperatorExpression(right) == IF isTruthy(right) THEN FALSE_OBJECT ELSE TRUE_OBJECT

evaluateMinusPrefixOperatorExpression(right, heap) ==
  IF right.type # "IntegerObject"
    THEN Outcome(ErrorObject(Error("unknown operator: -%", <<>>, <<objectType(right)>>)), heap)
    ELSE Outcome(IntegerObject(-right.value, heap.nextRef), Created(heap))

evaluatePrefixExpression(operator, right, heap) ==
  CASE operator = "!" -> Outcome(evaluateBangOperatorExpression(right), heap)
    [] operator = "-" -> evaluateMinusPrefixOperatorExpression(right, heap)
    [] OTHER -> Outcome(ErrorObject(Error("unknown operator: % %", <<>>,
                                          <<operator, objectType(right)>>)), heap)

UnknownOperator(operator, left, right) ==
  ErrorObject(Error("unknown operator: % % %", <<>>,
                    <<objectType(left), operator, objectType(right)>>))

evaluateIntegerInfixExpression(operator, left, right, heap) ==
  CASE operator = "+" ->
         Outcome(IntegerObject(left.value + right.value, heap.nextRef), Created(heap))
    [] operator = "-" ->
         Outcome(IntegerObject(left.value - right.value, heap.nextRef), Created(heap))
    [] operator = "*" ->
         Outcome(IntegerObject(left.value * right.value, heap.nextRef), Created(heap))
    [] operator = "/" ->
         Outcome(NumberObject(JsDivide(left.value, right.value), heap.nextRef), Created(heap))
    [] operator = "<" -> Outcome(nativeBooleanToBooleanObject(left.value < right.value), heap)
    [] operator = ">" -> Outcome(nativeBooleanToBooleanObject(left.value > right.value), heap)
    [] operator = "==" -> Outcome(nativeBooleanToBooleanObject(left.value = right.value), heap)
    [] operator = "!=" -> Outcome(nativeBooleanToBooleanObject(left.value # right.value), heap)
    [] OTHER -> Outcome(UnknownOperator(operator, left, right), heap)

evaluateStringInfixExpression(operator, left, right, heap) ==
  IF operator # "+" THEN Outcome(UnknownOperator(operator, left, right), heap)
  ELSE Outcome(StringObject(left.str \o right.str, heap.nextRef), Created(heap))

\* The && and || operators are no part of the programs here.
evaluateInfixExpression(operator, left, right, heap) ==
  IF objectType(left) # objectType(right)
    THEN Outcome(ErrorObject(Error("type mismatch: % % %", <<>>,
                                   <<objectType(left), operator, objectType(right)>>)), heap)
  ELSE IF left.type = "IntegerObject" /\ right.type = "IntegerObject"
    THEN evaluateIntegerInfixExpression(operator, left, right, heap)
  ELSE IF left.type = "StringObject" /\ right.type = "StringObject"
    THEN evaluateStringInfixExpression(operator, left, right, heap)
  ELSE IF operator = "==" THEN Outcome(nativeBooleanToBooleanObject(left.ref = right.ref), heap)
  ELSE IF operator = "!=" THEN Outcome(nativeBooleanToBooleanObject(left.ref # right.ref), heap)
  ELSE Outcome(UnknownOperator(operator, left, right), heap)

evaluateArrayIndexExpression(array, index) ==
  IF index.value < 0 \/ index.value > Len(array.elements) - 1 THEN NULL
  ELSE array.elements[index.value + 1]

evaluateHashIndexExpression(hash, index) ==
  IF ~IsHashable(index)
    THEN ErrorObject(Error("unusable as hash key: %", <<>>, <<objectType(index)>>))
  ELSE IF ~PairsHas(hash.pairs, hashKey(index)) THEN NULL
  ELSE PairsGet(hash.pairs, hashKey(index)).value

evaluateIndexExpression(left, index) ==
  IF left.type = "ArrayObject" /\ index.type = "IntegerObject"
    THEN evaluateArrayIndexExpression(left, index)
  ELSE IF left.type = "HashObject" THEN evaluateHashIndexExpression(left, index)
  ELSE ErrorObject(Error("index operator not supported: %", <<>>, <<objectType(left)>>))

\* builtins.get(name); undefined reads like null.
BuiltinNamed(name) ==
  IF \E i \in 1..Len(BuiltinNames) : BuiltinNames[i] = name
    THEN BuiltinFunctionObject((CHOOSE i \in 1..Len(BuiltinNames) : BuiltinNames[i] = name) - 1)
    ELSE JsNull

evaluateIdentifier(node, environment, heap) ==
  LET value == EnvironmentGet(heap.environments, environment, node.value)
  IN IF IsObject(value) THEN value
     ELSE IF IsObject(BuiltinNamed(node.value)) THEN BuiltinNamed(node.value)
     ELSE ErrorObject(Error("identifier not found: %", <<>>, <<node.value>>))

\* forEach((parameter, index) => environment.setOnCurrent(parameter.value, args[index]))
RECURSIVE SetParameters(_, _, _, _, _)
SetParameters(heap, environment, parameters, args, index) ==
  IF index > Len(parameters) THEN heap
  ELSE SetParameters(setOnCurrent(heap, environment, parameters[index],
                                  IF index <= Len(args) THEN args[index] ELSE JsNull),
                     environment, parameters, args, index + 1)

\* The heap with the new Environment, which is the last of heap.environments.
extendFunctionEnvironment(fn, args, heap) ==
  SetParameters([heap EXCEPT !.environments = Append(@, Environment(fn.environment))],
                Len(heap.environments) + 1, fn.parameters, args, 1)

unwrapReturnValue(object) == IF object.type = "ReturnValueObject" THEN object.value ELSE object

RECURSIVE evaluator(_, _, _)
RECURSIVE ProgramStatements(_, _, _, _, _)
RECURSIVE BlockStatements(_, _, _, _, _)
RECURSIVE ExpressionsFrom(_, _, _, _, _)
RECURSIVE HashLiteralPairs(_, _, _, _, _)
RECURSIVE WhileLoop(_, _, _, _)

\* The loop of evaluateWhileExpression, `result` being the result of the last turn.
WhileLoop(node, environment, heap, result) ==
  LET condition == evaluator(node.condition, environment, heap)
  IN IF isError(condition.result) THEN condition
     ELSE IF ~isTruthy(condition.result) THEN Outcome(result, condition.heap)
     ELSE LET turn == evaluator(node.block, environment, condition.heap)
          IN IF turn.result.type \in {"ReturnValueObject", "ErrorObject"} THEN turn
             ELSE WhileLoop(node, environment, turn.heap, turn.result)

evaluateWhileExpression(node, environment, heap) == WhileLoop(node, environment, heap, NULL)

\* The branch of evaluator() for a ReassignStatement, which like the one for a
\* LetStatement returns nothing itself: the function ends with return NULL.
evaluateReassignStatement(node, environment, heap) ==
  LET newValue == evaluator(node.value, environment, heap)
      currentValue == EnvironmentGet(newValue.heap.environments, environment, node.name)
  IN IF isError(newValue.result) THEN newValue
     ELSE IF ~IsObject(currentValue)
       THEN Outcome(ErrorObject(Error("variable % reassigned before being declared", <<>>,
                                      <<node.name>>)), newValue.heap)
     ELSE IF objectType(currentValue) # objectType(newValue.result)
       THEN Outcome(ErrorObject(Error("Reassignment mismatch: tried to assign % to %", <<>>,
                                      <<objectType(newValue.result), objectType(currentValue)>>)),
                    newValue.heap)
     ELSE Outcome(NULL, setOnClosest(newValue.heap, environment, node.name, newValue.result))

\* The loop of evaluateProgram from statements[i], `result` being the last result.
ProgramStatements(statements, i, environment, heap, result) ==
  IF i > Len(statements) THEN Outcome(result, heap)
  ELSE LET this == evaluator(statements[i], environment, heap)
       IN IF this.result.type = "ReturnValueObject" THEN Outcome(this.result.value, this.heap)
          ELSE IF this.result.type = "ErrorObject" THEN this
          ELSE ProgramStatements(statements, i + 1, environment, this.heap, this.result)

evaluateProgram(program, environment, heap) ==
  ProgramStatements(program.statements, 1, environment, heap, NULL)

\* The loop of evaluateBlockStatement from statements[i].
BlockStatements(statements, i, environment, heap, result) ==
  IF i > Len(statements) THEN Outcome(result, heap)
  ELSE LET this == evaluator(statements[i], environment, heap)
       IN IF this.result.type \in {"ReturnValueObject", "ErrorObject"} THEN this
          ELSE BlockStatements(statements, i + 1, environment, this.heap, this.result)

evaluateBlockStatement(node, environment, heap) ==
  BlockStatements(node.statements, 1, environment, heap, NULL)

evaluateIfExpression(node, environment, heap) ==
  LET condition == evaluator(node.condition, environment, heap)
  IN IF isError(condition.result) THEN condition
     ELSE IF isTruthy(condition.result)
       THEN evaluator(node.consequence, environment, condition.heap)
     ELSE IF node.alternative # <<>>
       THEN evaluator(node.alternative[1], environment, condition.heap)
     ELSE Outcome(NULL, condition.heap)

\* The loop of evaluateExpressions from expressions[i]: the result is the array.
ExpressionsFrom(expressions, i, environment, heap, results) ==
  IF i > Len(expressions) THEN Outcome(results, heap)
  ELSE LET this == evaluator(expressions[i], environment, heap)
       IN IF isError(this.result) THEN Outcome(<<this.result>>, this.heap)
          ELSE ExpressionsFrom(expressions, i + 1, environment, this.heap,
                               Append(results, this.result))

evaluateExpressions(expressions, environment, heap) ==
  ExpressionsFrom(expressions, 1, environment, heap, <<>>)

\* node.pairs.forEach(...) from the i-th pair: what the callback returns is dropped,
\* so a key that is not Hashable or a value that is an error leaves the pair out.
HashLiteralPairs(pairs, i, environment, heap, map) ==
  IF i > Len(pairs) THEN Outcome(map, heap)
  ELSE LET evaluatedKey == evaluator(pairs[i][1], environment, heap)
           evaluatedValue == evaluator(pairs[i][2], environment, evaluatedKey.heap)
       IN IF ~IsHashable(evaluatedKey.result)
            THEN HashLiteralPairs(pairs, i + 1, environment, evaluatedKey.heap, map)
          ELSE IF isError(evaluatedValue.result)
            THEN HashLiteralPairs(pairs, i + 1, environment, evaluatedValue.heap, map)
          ELSE HashLiteralPairs(pairs, i + 1, environment, evaluatedValue.heap,
                                PairsSet(map, hashKey(evaluatedKey.result),
                                         [key |-> evaluatedKey.result,
                                          value |-> evaluatedValue.result]))

evaluateHashLiteral(node, environment, heap) ==
  LET built == HashLiteralPairs(node.pairs, 1, environment, heap, <<>>)
  IN Outcome(HashObject(built.result, built.heap.nextRef), Created(built.heap))

applyFunction(fn, args, heap) ==
  IF fn.type = "FunctionObject"
    THEN LET extended == extendFunctionEnvironment(fn, args, heap)
             body == evaluator(fn.body, Len(extended.environments), extended)
         IN Outcome(unwrapReturnValue(body.result), body.heap)
  ELSE IF fn.type = "BuiltinFunctionObject"
    THEN LET applied == ApplyBuiltin(fn, args, heap.nextRef)
         IN Outcome(applied.result, IF applied.allocated THEN Created(heap) ELSE heap)
  ELSE Outcome(ErrorObject(Error("not a function: %", <<>>, <<objectType(fn)>>)), heap)

\* evaluator(node, environment): one branch per class of node.
evaluator(node, environment, heap) ==
  CASE node.node = "Program" -> evaluateProgram(node, environment, heap)
    [] node.node = "ExpressionStatement" -> evaluator(node.expression, environment, heap)
    [] node.node = "IntegerLiteral" ->
         Outcome(IntegerObject(node.value, heap.nextRef), Created(heap))
    [] node.node = "StringLiteral" ->
         Outcome(StringObject(node.literal, heap.nextRef), Created(heap))
    [] node.node = "BooleanLiteral" -> Outcome(nativeBooleanToBooleanObject(node.value), heap)
    [] node.node = "PrefixExpression" ->
         LET right == evaluator(node.right, environment, heap)
         IN IF right.result.type = "NullObject" \/ isError(right.result) THEN right
            ELSE evaluatePrefixExpression(node.operator, right.result, right.heap)
    [] node.node = "InfixExpression" ->
         LET left == evaluator(node.left, environment, heap)
             right == evaluator(node.right, environment, left.heap)
         IN IF left.result.type = "NullObject" \/ isError(left.result) THEN left
            ELSE IF right.result.type = "NullObject" \/ isError(right.result) THEN right
            ELSE evaluateInfixExpression(node.operator, left.result, right.result, right.heap)
    [] node.node = "BlockStatement" -> evaluateBlockStatement(node, environment, heap)
    [] node.node = "IfExpression" -> evaluateIfExpression(node, environment, heap)
    [] node.node = "WhileExpression" -> evaluateWhileExpression(node, environment, heap)
    [] node.node = "ReassignStatement" -> evaluateReassignStatement(node, environment, heap)
    [] node.node = "ReturnStatement" ->
         LET value == evaluator(node.returnValue, environment, heap)
         IN Outcome(ReturnValueObject(value.result, value.heap.nextRef), Created(value.heap))
    [] node.node = "LetStatement" ->
         LET value == evaluator(node.value, environment, heap)
         IN IF isError(value.result) THEN value
            ELSE Outcome(NULL, setOnCurrent(value.heap, environment, node.name, value.result))
    [] node.node = "Identifier" -> Outcome(evaluateIdentifier(node, environment, heap), heap)
    [] node.node = "FunctionLiteral" ->
         Outcome(FunctionObject(node.parameters, node.body, environment, heap.nextRef),
                 Created(heap))
    [] node.node = "CallExpression" ->
         LET fn == evaluator(node.function, environment, heap)
             args == evaluateExpressions(node.arguments, environment, fn.heap)
         IN IF isError(fn.result) THEN fn
            ELSE IF Len(args.result) = 1 /\ isError(args.result[1]) THEN Outcome(args.result[1], args.heap)
            ELSE applyFunction(fn.result, args.result, args.heap)
    [] node.node = "ArrayLiteral" ->
         LET elements == evaluateExpressions(node.elements, environment, heap)
         IN IF Len(elements.result) = 1 /\ isError(elements.result[1])
              THEN Outcome(elements.result[1], elements.heap)
              ELSE Outcome(ArrayObject(elements.result, elements.heap.nextRef),
                           Created(elements.heap))
    [] node.node = "IndexExpression" ->
         LET left == evaluator(node.left, environment, heap)
             index == evaluator(node.index, environment, left.heap)
         IN IF isError(left.result) THEN left
            ELSE IF isError(index.result) THEN index
            ELSE Outcome(evaluateIndexExpression(left.result, index.result), index.heap)
    [] node.node = "HashLiteral" -> evaluateHashLiteral(node, environment, heap)
    [] OTHER -> Outcome(NULL, heap)

\* The text of a natural number in decimal.
RECURSIVE Digits(_)
Digits(n) == IF n < 10 THEN <<48 + n>> ELSE Digits(n \div 10) \o <<48 + (n % 10)>>

\* number.toString() of a whole number.
NumberToString(n) == IF n < 0 THEN <<45>> \o Digits(-n) ELSE Digits(n)

\* The classes whose inspect() is modelled: the values of these programs.  A
\* number that is not whole prints its decimal expansion, which is not modelled.
RECURSIVE IsValue(_)
IsValue(object) ==
  CASE object.type = "IntegerObject" -> IsWhole(object)
    [] object.type \in {"BooleanObject", "NullObject", "StringObject"} -> TRUE
    [] object.type = "ArrayObject" ->
         \A i \in 1..Len(object.elements) : IsValue(object.elements[i])
    [] object.type = "HashObject" ->
         \A i \in 1..Len(object.pairs) :
           IsValue(object.pairs[i].pair.key) /\ IsValue(object.pairs[i].pair.value)
    [] OTHER -> FALSE

\* texts.join(', ')
RECURSIVE Join(_)
Join(texts) ==
  IF texts = <<>> THEN <<>>
  ELSE IF Len(texts) = 1 THEN texts[1]
  ELSE texts[1] \o <<44, 32>> \o Join(Tail(texts))

\* object.inspect(), on a value.
RECURSIVE inspect(_)
inspect(object) ==
  CASE object.type = "IntegerObject" -> NumberToString(object.value)
    [] object.type = "BooleanObject" ->
         (IF object.bool THEN <<116, 114, 117, 101>> ELSE <<102, 97, 108, 115, 101>>)
    [] object.type = "NullObject" -> <<110, 117, 108, 108>>
    [] object.type = "StringObject" -> object.str
    [] object.type = "ArrayObject" ->
         <<91>> \o Join([i \in 1..Len(object.elements) |-> inspect(object.elements[i])])
           \o <<93>>
    [] object.type = "HashObject" ->
         <<123>> \o Join([i \in 1..Len(object.pairs) |->
                            inspect(object.pairs[i].pair.key) \o <<58, 32>>
                              \o inspect(object.pairs[i].pair.value)])
           \o <<125>>

(***************************************************************************)
(* History records, kept beside the VM to state what a call and its return *)
(* did; the VM never reads them.                                           *)
(***************************************************************************)
CallRecord(kind, callee, numberOfArguments, sp, fi, result) ==
  [kind |-> kind, callee |-> callee, numberOfArguments |-> numberOfArguments,
   stackPointer |-> sp, framesIndex |-> fi, result |-> result]
NoCall == CallRecord("none", JsNull, 0, 0, 0, JsNull)

ReturnRecord(kind, call, value) == [kind |-> kind, call |-> call, value |-> value]
NoReturn == ReturnRecord("none", NoCall, JsNull)

ResolveRecord(called, t, name, before, result) ==
  [called |-> called, table |-> t, name |-> name, before |-> before,
   found |-> result.found, symbol |-> result.symbol]
NoResolve ==
  ResolveRecord(FALSE, 0, "", <<>>, [found |-> FALSE, symbol |-> NoSymbol])

DefineRecord(called, t, name, callsBefore, before, symbol) ==
  [called |-> called, table |-> t, name |-> name, callsBefore |-> callsBefore,
   before |-> before, symbol |-> symbol]
NoDefine == DefineRecord(FALSE, 0, "", 0, <<>>, NoSymbol)

\* The operands a binary operation or a comparison found on the stack.
BinaryRecord(called, opcode, left, right, sp) ==
  [called |-> called, opcode |-> opcode, left |-> left, right |-> right, stackPointer |-> sp]
NoBinary == BinaryRecord(FALSE, 0, JsNull, JsNull, 0)
BinaryAbout(vm, opcode) ==
  BinaryRecord(TRUE, opcode, LeftOperand(vm), RightOperand(vm), vm.stackPointer)

\* The instruction a step of run() executed: its opcode and operand bytes, and the
\* stack pointer, the frame index and the three topmost slots (top[k] is
\* stack[sp - k]) as the step found them.
ExecutedRecord(called, opcode, operand16, operand8, operand8At3, sp, fi, top) ==
  [called |-> called, opcode |-> opcode, operand16 |-> operand16, operand8 |-> operand8,
   operand8At3 |-> operand8At3, stackPointer |-> sp, framesIndex |-> fi, top |-> top]
NotExecuted == ExecutedRecord(FALSE, 0, 0, 0, 0, 0, 0, <<JsNull, JsNull, JsNull>>)

\* No line was read, no global stored and no closure built.  stores[i] is the value
\* the last OpSetGlobal i took from the stack, and the line it ran in; closures holds,
\* for every OpClosure executed, the identity the closure got, the slot of the first
\* value it took and the values it found in the slots.
NoSession == [lines |-> 0, stores |-> <<>>, closures |-> <<>>]

\* The evaluator has not run.
NotEvaluated == [done |-> FALSE, result |-> JsNull, environments |-> <<>>]

(***************************************************************************)
(* The steps of the program: compile(), new VM(), and run(), one action    *)
(* per case of run()'s switch.                                             *)
(***************************************************************************)
\* compiler.compile(program) on a new Compiler with a new SymbolTable.
Compile ==
  /\ phase = "source"
  /\ LET compiled == compile(Compiler(<<SymbolTable(0)>>, <<>>, nextRef), input.program)
     IN /\ compiler' = compiled
        /\ thrown' = compiled.thrown
        /\ nextRef' = compiled.nextRef
        /\ phase' = IF HasThrown(compiled) THEN "compile error" ELSE "bytecode"
  /\ UNCHANGED <<input, vmVars, historyVars, symbolVars, resultVars>>

\* evaluator(program, new Environment()): the evaluator's run of the same program,
\* which shares nothing with the compiler and the VM.
Evaluate ==
  /\ phase = "source"
  /\ input.kind = "source"
  /\ ~evaluated.done
  /\ LET outcome == evaluator(input.program, 1, Heap(<<Environment(0)>>, 1))
     IN evaluated' = [done |-> TRUE, result |-> outcome.result,
                      environments |-> outcome.heap.environments]
  /\ UNCHANGED <<phase, input, compiler, thrown, nextRef, vmVars, historyVars, symbolVars,
                 hashKeys, coded, emitted>>

\* The Bytecode the VM is constructed with: compiler.bytecode(), or the
\* hand-assembled one.
ProgramBytecode == IF input.kind = "source" THEN bytecode(compiler) ELSE input.bytecode

ThisVM ==
  [ constants |-> constants, globals |-> globals, stack |-> stack,
    stackPointer |-> stackPointer, frames |-> frames, framesIndex |-> framesIndex,
    thrown |-> thrown, nextRef |-> nextRef ]

\* The VM after a step; an Error thrown in the step ends run().
Becomes(vm) ==
  /\ constants' = vm.constants
  /\ globals' = vm.globals
  /\ stack' = vm.stack
  /\ stackPointer' = vm.stackPointer
  /\ frames' = vm.frames
  /\ framesIndex' = vm.framesIndex
  /\ thrown' = vm.thrown
  /\ nextRef' = vm.nextRef
  /\ phase' = IF HasFailed(vm) THEN "thrown" ELSE "running"
  /\ UNCHANGED <<input, compiler, symbolVars, resultVars>>

NoCallOrReturn ==
  calls' = calls /\ lastCall' = NoCall /\ lastReturn' = NoReturn /\ lastBinary' = NoBinary

\* A variant that gives the VM a globals array of its own.
WithNewGlobals(vm, given) == vm

\* constructor(bytecode, globals): this.globals = globals
WithGlobals(vm, given) == [vm EXCEPT !.globals = given]

\* new VM(bytecode, globals), with the globals array of the runs before (a new array
\* before the first run).
NewVM ==
  /\ phase = "bytecode"
  /\ Becomes(WithGlobals(VM(ProgramBytecode, nextRef), globals))
  /\ NoCallOrReturn
  /\ lastExecuted' = NotExecuted
  /\ session' = session

\* while (ip < instructions.length - 1) { ip++; opcode = instructions[ip]; ...
LoopContinues ==
  currentFrame(ThisVM).instructionPointer < Len(instructions(currentFrame(ThisVM))) - 1
Fetched == Advance(ThisVM, 1)
FetchedPointer == currentFrame(Fetched).instructionPointer
FetchedInstructions == instructions(currentFrame(Fetched))
FetchedOpcode == ByteAt(FetchedInstructions, FetchedPointer)

\* readUint16(instructions.slice(instructionPointer + 1)); instructions[instructionPointer + k]
Operand16 == readUint16(FetchedInstructions, FetchedPointer + 1)
Operand8(k) == ByteAt(FetchedInstructions, FetchedPointer + k)

\* The loop goes on and the opcode it fetches is one of `opcodes`.
Executes(opcodes) ==
  /\ phase = "running"
  /\ LoopContinues
  /\ FetchedOpcode \in opcodes
  /\ lastExecuted' = ExecutedRecord(TRUE, FetchedOpcode, Operand16, Operand8(1), Operand8(3),
                                    stackPointer, framesIndex,
                                    [k \in 1..3 |-> ArrayGet(stack, stackPointer - k)])
  /\ session' = IF FetchedOpcode = Opcode.OpSetGlobal /\ stackPointer > 0
                    /\ InArray(Operand16, GLOBALS_SIZE)
                  THEN [session EXCEPT !.stores =
                          (Operand16 :> [value |-> ArrayGet(stack, stackPointer - 1),
                                         line |-> session.lines]) @@ @]
                  ELSE IF FetchedOpcode = LaterOpcode.OpClosure
                  THEN [session EXCEPT !.closures =
                          Append(@, [ref |-> nextRef, slot |-> stackPointer - Operand8(3),
                                     free |-> [i \in 1..Operand8(3) |->
                                                 ArrayGet(stack, stackPointer - Operand8(3) + i - 1)]])]
                  ELSE session

\* The loop condition fails: run() returns.
RunReturns ==
  /\ phase = "running"
  /\ ~LoopContinues
  /\ phase' = "returned"
  /\ lastCall' = NoCall
  /\ lastReturn' = NoReturn
  /\ lastBinary' = NoBinary
  /\ UNCHANGED <<input, compiler, vmVars, thrown, nextRef, calls, lastExecuted, session,
                 symbolVars, resultVars>>

ExecConstant ==
  /\ Executes({Opcode.OpConstant})
  /\ Becomes(push(Advance(Fetched, 2), ConstantAt(Fetched, Operand16)))
  /\ NoCallOrReturn

ExecBinaryOperation ==
  /\ Executes({Opcode.OpAdd, Opcode.OpSub, Opcode.OpMul, Opcode.OpDiv})
  /\ Becomes(executeBinaryOperation(Fetched, FetchedOpcode))
  /\ lastBinary' = BinaryAbout(Fetched, FetchedOpcode)
  /\ calls' = calls /\ lastCall' = NoCall /\ lastReturn' = NoReturn

ExecPop ==
  /\ Executes({Opcode.OpPop})
  /\ Becomes(pop(Fetched))
  /\ NoCallOrReturn

ExecTrue ==
  /\ Executes({Opcode.OpTrue})
  /\ Becomes(push(Fetched, TRUE_OBJECT))
  /\ NoCallOrReturn

ExecFalse ==
  /\ Executes({Opcode.OpFalse})
  /\ Becomes(push(Fetched, FALSE_OBJECT))
  /\ NoCallOrReturn

ExecNull ==
  /\ Executes({Opcode.OpNull})
  /\ Becomes(push(Fetched, NULL))
  /\ NoCallOrReturn

ExecComparison ==
  /\ Executes({Opcode.OpEqual, Opcode.OpNotEqual, Opcode.OpGreaterThan})
  /\ Becomes(executeComparison(Fetched, FetchedOpcode))
  /\ lastBinary' = BinaryAbout(Fetched, FetchedOpcode)
  /\ calls' = calls /\ lastCall' = NoCall /\ lastReturn' = NoReturn

ExecMinus ==
  /\ Executes({Opcode.OpMinus})
  /\ Becomes(executeMinus(Fetched))
  /\ NoCallOrReturn

ExecBang ==
  /\ Executes({Opcode.OpBang})
  /\ Becomes(executeBang(Fetched))
  /\ NoCallOrReturn

ExecJumpNotTruthy ==
  /\ Executes({Opcode.OpJumpNotTruthy})
  /\ Becomes(executeJumpNotTruthy(Fetched, Operand16))
  /\ NoCallOrReturn

ExecJump ==
  /\ Executes({Opcode.OpJump})
  /\ Becomes(JumpTo(Fetched, Operand16))
  /\ NoCallOrReturn

ExecSetGlobal ==
  /\ Executes({Opcode.OpSetGlobal})
  /\ Becomes(executeSetGlobal(Advance(Fetched, 2), Operand16))
  /\ NoCallOrReturn

ExecSetLocal ==
  /\ Executes({LaterOpcode.OpSetLocal})
  /\ Becomes(executeSetLocal(Advance(Fetched, 1), Operand8(1)))
  /\ NoCallOrReturn

ExecGetGlobal ==
  /\ Executes({Opcode.OpGetGlobal})
  /\ Becomes(push(Advance(Fetched, 2), ArrayGet(globals, Operand16)))
  /\ NoCallOrReturn

ExecGetLocal ==
  /\ Executes({LaterOpcode.OpGetLocal})
  /\ Becomes(push(Advance(Fetched, 1),
                  ArrayGet(stack, currentFrame(Fetched).basePointer + Operand8(1))))
  /\ NoCallOrReturn

ExecGetBuiltin ==
  /\ Executes({LaterOpcode.OpGetBuiltin})
  /\ Becomes(executeGetBuiltin(Advance(Fetched, 1), Operand8(1)))
  /\ NoCallOrReturn

ExecGetFree ==
  /\ Executes({LaterOpcode.OpGetFree})
  /\ Becomes(executeGetFree(Advance(Fetched, 1), Operand8(1)))
  /\ NoCallOrReturn

ExecArray ==
  /\ Executes({Opcode.OpArray})
  /\ Becomes(executeArray(Advance(Fetched, 2), Operand16))
  /\ NoCallOrReturn

ExecHash ==
  /\ Executes({Opcode.OpHash})
  /\ Becomes(executeHash(Advance(Fetched, 2), Operand16))
  /\ NoCallOrReturn

ExecIndex ==
  /\ Executes({Opcode.OpIndex})
  /\ Becomes(executeIndex(Fetched))
  /\ NoCallOrReturn

ExecClosure ==
  /\ Executes({LaterOpcode.OpClosure})
  /\ Becomes(pushClosure(Advance(Fetched, 3), Operand16, Operand8(3)))
  /\ NoCallOrReturn

ExecCurrentClosure ==
  /\ Executes({LaterOpcode.OpCurrentClosure})
  /\ Becomes(push(Fetched, currentFrame(Fetched).closure))
  /\ NoCallOrReturn

\* The record of the call that OpCall is about to make.
CallAbout(vm, numberOfArguments) ==
  LET callee == Callee(vm, numberOfArguments)
  IN CallRecord(CASE callee.type = "ClosureObject" -> "closure"
                  [] callee.type = "BuiltinFunctionObject" -> "builtin"
                  [] OTHER -> "other",
                callee, numberOfArguments, vm.stackPointer, vm.framesIndex,
                IF callee.type = "BuiltinFunctionObject"
                  THEN BuiltinApplied(vm, callee, numberOfArguments).result ELSE JsNull)

ExecCall ==
  /\ Executes({LaterOpcode.OpCall})
  /\ LET after == executeCall(Advance(Fetched, 1), Operand8(1))
         call == CallAbout(Fetched, Operand8(1))
     IN /\ Becomes(after)
        /\ lastCall' = call
        /\ calls' = IF after.framesIndex > framesIndex THEN Append(calls, call) ELSE calls
  /\ lastReturn' = NoReturn
  /\ lastBinary' = NoBinary

\* The call whose frame a return pops; none when the main frame executes it.
ReturningCall == IF calls = <<>> THEN NoCall ELSE calls[Len(calls)]
CallsAfterReturn(vm) ==
  IF vm.framesIndex < framesIndex /\ calls # <<>> THEN SubSeq(calls, 1, Len(calls) - 1) ELSE calls

ExecReturnValue ==
  /\ Executes({LaterOpcode.OpReturnValue})
  /\ LET after == returnToCaller(pop(Fetched), popped(Fetched))
     IN /\ Becomes(after)
        /\ calls' = CallsAfterReturn(after)
  /\ lastReturn' = ReturnRecord("ReturnValue", ReturningCall, popped(Fetched))
  /\ lastCall' = NoCall
  /\ lastBinary' = NoBinary

ExecReturn ==
  /\ Executes({LaterOpcode.OpReturn})
  /\ LET after == returnToCaller(Fetched, NULL)
     IN /\ Becomes(after)
        /\ calls' = CallsAfterReturn(after)
  /\ lastReturn' = ReturnRecord("Return", ReturningCall, NULL)
  /\ lastCall' = NoCall
  /\ lastBinary' = NoBinary

\* default: throw new Error(`unknown opcode: ${opcode}`)
ExecUnknownOpcode ==
  /\ Executes(0..255 \ {op \in 0..255 : HasDefinition(op)})
  /\ Becomes(throw(Fetched, Error("unknown opcode: %", <<FetchedOpcode>>, <<>>)))
  /\ NoCallOrReturn

(***************************************************************************)
(* The programs run.  Source programs are syntax trees as the parser       *)
(* builds them; the closure and builtin calls, which this compiler does    *)
(* not emit, are run from bytecode assembled with make().                  *)
(***************************************************************************)
MaxBlockLen == 2
MaxBodyLen == 2
MaxArguments == 2
MaxParameters == 2
MaxExtraLocals == 1
MaxDepth == 1
MaxFree == 2
MaxDividend == 7
MaxDivisor == 3

SeqsUpTo(S, n) == UNION {[1..k -> S] : k \in 0..n}

\* The integer literal of one digit, and the text of lower-case letters.
Number(n) == IntegerLiteral(<<48 + n>>, n)
TextAB == <<97, 98>>

SourceInput(program) ==
  [kind |-> "source", program |-> program, bytecode |-> Bytecode(<<>>, <<>>)]
AssembledInput(code) ==
  [kind |-> "assembled", program |-> Program(<<>>), bytecode |-> code]

\* 1;   let a = 2;   if (true) { 3 };
BlockStatementPool ==
  { ExpressionStatement(Number(1)),
    LetStatement("a", Number(2)),
    ExpressionStatement(IfExpression(BooleanLiteral(TRUE),
                                     BlockStatement(<<ExpressionStatement(Number(3))>>), <<>>)) }
Blocks == {BlockStatement(statements) : statements \in SeqsUpTo(BlockStatementPool, MaxBlockLen)}

\* if (<condition>) { <block> }  and  if (<condition>) { <block> } else { <block> }
IfExpressions ==
  { IfExpression(BooleanLiteral(condition), consequence, alternative) :
      condition \in BOOLEAN, consequence \in Blocks,
      alternative \in {<<>>} \cup {<<block>> : block \in Blocks} }

\* A program that is one if-expression statement.
IfPrograms == {Program(<<ExpressionStatement(e)>>) : e \in IfExpressions}

\* let a = 1;   let b = 2;   a;   fn() { a; let a = 3; };
BodyStatementPool ==
  { LetStatement("a", Number(1)),
    LetStatement("b", Number(2)),
    ExpressionStatement(Identifier("a")),
    ExpressionStatement(FunctionLiteral(<<>>,
      BlockStatement(<<ExpressionStatement(Identifier("a")), LetStatement("a", Number(3))>>))) }
Bodies == {BlockStatement(statements) : statements \in SeqsUpTo(BodyStatementPool, MaxBodyLen)}

\* [let a = 5;] fn(<parameters>) { <body> };
FunctionPrograms ==
  { Program(prelude \o <<ExpressionStatement(FunctionLiteral(parameters, body))>>) :
      prelude \in {<<>>, <<LetStatement("a", Number(5))>>},
      parameters \in {<<>>, <<"a">>},
      body \in Bodies }

\* Programs over the other node types.
Corpus ==
  { Program(<<ReturnStatement(Number(5))>>),
    Program(<<ExpressionStatement(Number(1)), ReturnStatement(Number(5)), ExpressionStatement(Number(2))>>),
    Program(<<ExpressionStatement(InfixExpression("+", Number(1), Number(2)))>>),
    Program(<<ExpressionStatement(InfixExpression("-", Number(1), Number(2)))>>),
    Program(<<ExpressionStatement(InfixExpression("*", Number(3), Number(2)))>>),
    Program(<<ExpressionStatement(InfixExpression("/", Number(6), Number(2)))>>),
    Program(<<ExpressionStatement(InfixExpression("<", Number(1), Number(2)))>>),
    Program(<<ExpressionStatement(InfixExpression(">", Number(1), Number(2)))>>),
    Program(<<ExpressionStatement(InfixExpression("==", Number(1), Number(1)))>>),
    Program(<<ExpressionStatement(InfixExpression("!=", BooleanLiteral(TRUE), BooleanLiteral(FALSE)))>>),
    Program(<<ExpressionStatement(InfixExpression("+", StringLiteral(TextAB), StringLiteral(TextAB)))>>),
    Program(<<ExpressionStatement(InfixExpression("+", Number(1), BooleanLiteral(TRUE)))>>),
    Program(<<ExpressionStatement(PrefixExpression("-", Number(1)))>>),
    Program(<<ExpressionStatement(PrefixExpression("!", BooleanLiteral(TRUE)))>>),
    Program(<<ExpressionStatement(PrefixExpression("-", BooleanLiteral(TRUE)))>>),
    Program(<<LetStatement("a", Number(1)), ExpressionStatement(Identifier("a"))>>),
    Program(<<ExpressionStatement(Identifier("b"))>>),
    Program(<<ExpressionStatement(IndexExpression(ArrayLiteral(<<Number(1), Number(2)>>), Number(1)))>>),
    Program(<<ExpressionStatement(IndexExpression(ArrayLiteral(<<Number(1)>>), Number(3)))>>),
    Program(<<ExpressionStatement(IndexExpression(
               HashLiteral(<< <<Number(2), Number(3)>>, <<Number(1), Number(4)>> >>), Number(1)))>>),
    Program(<<ExpressionStatement(IndexExpression(
               HashLiteral(<< <<StringLiteral(TextAB), Number(3)>> >>), BooleanLiteral(TRUE)))>>),
    Program(<<ExpressionStatement(HashLiteral(<< <<ArrayLiteral(<<>>), Number(3)>> >>))>>),
    Program(<<ExpressionStatement(IndexExpression(Number(1), Number(1)))>>),
    Program(<<ExpressionStatement(CallExpression(
               FunctionLiteral(<<>>, BlockStatement(<<ExpressionStatement(Number(1))>>)), <<>>))>>),
    Program(<<ExpressionStatement(IfExpression(InfixExpression("<", Number(1), Number(2)),
               BlockStatement(<<ExpressionStatement(IfExpression(BooleanLiteral(FALSE),
                  BlockStatement(<<ExpressionStatement(Number(1))>>),
                  <<BlockStatement(<<ExpressionStatement(IfExpression(BooleanLiteral(TRUE),
                       BlockStatement(<<ExpressionStatement(Number(2))>>), <<>>))>>)>>))>>),
               <<>>))>>) }

\* The inputs of the tests of vm.test.ts, as the parser reads them.
VmTests ==
  LET I(n) == IntegerLiteral(Digits(n), n)
      T == BooleanLiteral(TRUE)
      F == BooleanLiteral(FALSE)
      Op(operator, left, right) == InfixExpression(operator, left, right)
      Not(right) == PrefixExpression("!", right)
      Neg(right) == PrefixExpression("-", right)
      Then(e) == BlockStatement(<<ExpressionStatement(e)>>)
      If(condition, e) == IfExpression(condition, Then(e), <<>>)
      IfElse(condition, e, f) == IfExpression(condition, Then(e), <<Then(f)>>)
      Let(name, e) == LetStatement(name, e)
      Name(name) == Identifier(name)
      Only(e) == Program(<<ExpressionStatement(e)>>)
      monkey == <<109, 111, 110, 107, 101, 121>>
      mon == <<109, 111, 110>>
      key == <<107, 101, 121>>
      test == <<116, 101, 115, 116>>
      one == <<111, 110, 101>>
      two == <<116, 119, 111>>
      o == <<111>>
      ne == <<110, 101>>
      Literals123 == <<I(1), I(2), I(3)>>
  IN { Only(I(1)), Only(I(2)),
       Only(Op("+", I(1), I(2))), Only(Op("-", I(1), I(2))), Only(Op("*", I(1), I(2))),
       Only(Op("/", I(4), I(2))),
       \* 50 / 2 * 2 + 10 - 5
       Only(Op("-", Op("+", Op("*", Op("/", I(50), I(2)), I(2)), I(10)), I(5))),
       Only(Op("*", I(5), Op("+", I(2), I(10)))),
       Only(Op("+", Op("*", I(5), I(2)), I(10))),
       Only(Op("+", I(5), Op("*", I(2), I(10)))),
       Only(T), Only(F),
       Only(Op("<", I(1), I(2))), Only(Op(">", I(1), I(2))),
       Only(Op("<", I(1), I(1))), Only(Op(">", I(1), I(1))),
       Only(Op("==", I(1), I(1))), Only(Op("!=", I(1), I(1))),
       Only(Op("==", I(1), I(2))), Only(Op("!=", I(1), I(2))),
       Only(Op("==", T, T)), Only(Op("!=", T, T)), Only(Op("==", T, F)), Only(Op("!=", T, F)),
       Only(Op("==", F, F)), Only(Op("!=", F, F)), Only(Op("==", F, T)), Only(Op("!=", F, T)),
       Only(Op("==", Op("<", I(1), I(2)), T)), Only(Op("==", Op("<", I(1), I(2)), F)),
       Only(Op("==", Op(">", I(1), I(2)), T)), Only(Op("==", Op(">", I(1), I(2)), F)),
       Only(Neg(I(5))), Only(Neg(I(10))),
       \* -50 + 100 + -50
       Only(Op("+", Op("+", Neg(I(50)), I(100)), Neg(I(50)))),
       \* (5 + 10 * 2 + 15 / 3) * 2 + -10
       Only(Op("+", Op("*", Op("+", Op("+", I(5), Op("*", I(10), I(2))),
                                     Op("/", I(15), I(3))), I(2)), Neg(I(10)))),
       Only(Not(Op("<", I(1), I(2)))), Only(Not(Op(">", I(1), I(2)))),
       Only(Not(Op("==", I(1), I(2)))), Only(Not(Op("!=", I(1), I(2)))),
       Only(Not(T)), Only(Not(F)), Only(Not(I(5))),
       Only(Not(Not(T))), Only(Not(Not(F))), Only(Not(Not(I(5)))),
       Only(Not(Op("==", T, T))), Only(Not(Op("==", T, F))), Only(Not(Op("!=", T, F))),
       Only(Not(Op("==", F, F))), Only(Not(Op("!=", F, F))),
       Only(If(T, I(10))), Only(IfElse(T, I(10), I(20))), Only(IfElse(F, I(10), I(20))),
       Only(If(I(1), I(10))), Only(If(Op("<", I(1), I(2)), I(10))),
       Only(IfElse(Op("<", I(1), I(2)), I(10), I(20))),
       Only(IfElse(Op(">", I(1), I(2)), I(10), I(20))),
       Only(If(Op(">", I(1), I(2)), I(10))), Only(If(F, I(10))),
       \* !(if (false) { 5; })
       Only(Not(If(F, I(5)))),
       \* if ((if (false) { 10 })) { 10 } else { 20 }
       Only(IfElse(If(F, I(10)), I(10), I(20))),
       Program(<<Let("one", I(1)), ExpressionStatement(Name("one"))>>),
       Program(<<Let("one", I(1)), Let("two", I(2)),
                 ExpressionStatement(Op("+", Name("one"), Name("two")))>>),
       Program(<<Let("one", I(1)), Let("two", Op("+", Name("one"), Name("one"))),
                 ExpressionStatement(Op("+", Name("one"), Name("two")))>>),
       Only(StringLiteral(monkey)),
       Only(Op("+", StringLiteral(mon), StringLiteral(key))),
       Only(ArrayLiteral(<<>>)), Only(ArrayLiteral(Literals123)),
       Only(ArrayLiteral(<<Op("+", I(1), I(2)), Op("*", I(2), I(3)), Op("+", I(3), I(8))>>)),
       Only(HashLiteral(<<>>)),
       Only(HashLiteral(<< <<I(1), I(2)>> >>)),
       Only(HashLiteral(<< <<I(1), I(2)>>, <<I(2), I(3)>> >>)),
       Only(HashLiteral(<< <<Op("+", I(1), I(1)), Op("*", I(2), I(2))>>,
                           <<Op("+", I(3), I(3)), Op("*", I(4), I(4))>> >>)),
       Only(IndexExpression(ArrayLiteral(Literals123), I(0))),
       Only(IndexExpression(HashLiteral(<< <<I(1), I(2)>>, <<I(3), I(4)>>, <<I(5), I(6)>> >>),
                            I(5))),
       Only(IndexExpression(ArrayLiteral(Literals123), I(3))),
       Only(IndexExpression(HashLiteral(<< <<I(1), I(2)>> >>), StringLiteral(test))),
       Only(IndexExpression(HashLiteral(<< <<I(1), I(2)>> >>), Neg(I(1)))),
       Only(IndexExpression(HashLiteral(<< <<StringLiteral(one), I(1)>>,
                                           <<StringLiteral(two), I(2)>> >>),
                            Op("+", StringLiteral(o), StringLiteral(ne)))),
       Only(IndexExpression(IndexExpression(ArrayLiteral(<<ArrayLiteral(<<I(1), I(1), I(1)>>)>>),
                                            I(0)), I(0))),
       Only(IndexExpression(ArrayLiteral(<<>>), I(0))),
       Only(IndexExpression(HashLiteral(<<>>), I(0))) }

\* 1, 2, true, false, "a", [], {}, and if (false) { 1 } which is null
ComparisonOperands ==
  { Number(1), Number(2), BooleanLiteral(TRUE), BooleanLiteral(FALSE), StringLiteral(<<97>>),
    ArrayLiteral(<<>>), HashLiteral(<<>>),
    IfExpression(BooleanLiteral(FALSE), BlockStatement(<<ExpressionStatement(Number(1))>>), <<>>) }

\* <operand> <operator> <operand>;   let a = <operand>; a <operator> a;
ComparisonPrograms ==
  { Program(<<ExpressionStatement(InfixExpression(operator, left, right))>>) :
      operator \in {"==", "!=", ">", "<"}, left \in ComparisonOperands,
      right \in ComparisonOperands }
    \cup { Program(<<LetStatement("a", operand),
                     ExpressionStatement(InfixExpression(operator, Identifier("a"), Identifier("a")))>>) :
             operator \in {"==", "!="}, operand \in ComparisonOperands }

\* [1, 2],  {1: 2, "a": 3, true: 4},  {"Aa": 5},  1,  "a",  and if (false) { 1 }
IndexedOperands ==
  { ArrayLiteral(<<Number(1), Number(2)>>),
    HashLiteral(<< <<Number(1), Number(2)>>, <<StringLiteral(<<97>>), Number(3)>>,
                   <<BooleanLiteral(TRUE), Number(4)>> >>),
    HashLiteral(<< <<StringLiteral(<<65, 97>>), Number(5)>> >>),
    Number(1), StringLiteral(<<97>>),
    IfExpression(BooleanLiteral(FALSE), BlockStatement(<<ExpressionStatement(Number(1))>>), <<>>) }

\* 0, 1, 2, -1, true, false, "a", "Aa", "BB", [], {}, and if (false) { 1 }
IndexOperands ==
  { Number(0), Number(1), Number(2), PrefixExpression("-", Number(1)),
    BooleanLiteral(TRUE), BooleanLiteral(FALSE),
    StringLiteral(<<97>>), StringLiteral(<<65, 97>>), StringLiteral(<<66, 66>>),
    ArrayLiteral(<<>>), HashLiteral(<<>>),
    IfExpression(BooleanLiteral(FALSE), BlockStatement(<<ExpressionStatement(Number(1))>>), <<>>) }

\* <collection>[<index>];
IndexPrograms ==
  { Program(<<ExpressionStatement(IndexExpression(left, index))>>) :
      left \in IndexedOperands, index \in IndexOperands }

\* n and -n as the parser reads them: a literal, and a literal under a prefix minus.
SignedNumber(n) == IF n < 0 THEN PrefixExpression("-", Number(-n)) ELSE Number(n)

\* <dividend> / <divisor>;
DivisionPrograms ==
  { Program(<<ExpressionStatement(InfixExpression("/", SignedNumber(a), SignedNumber(b)))>>) :
      a \in (-MaxDividend)..MaxDividend, b \in (-MaxDivisor)..MaxDivisor }

\* The function literals of 'Test function literals', and others by the way their body
\* ends: fn() { return 5 + 3 }  fn() { 5 + 3 }  fn() { 1; 2 }  fn() { }  fn() { let a = 1; }
\* fn() { if (true) { 1 } }  fn() { if (false) { 1 } }  fn() { if (true) { return 1; } }
\* fn() { return 1; 2 }  fn(a) { a }
ReturningFunctions ==
  { FunctionLiteral(<<>>, BlockStatement(<<ReturnStatement(InfixExpression("+", Number(5), Number(3)))>>)),
    FunctionLiteral(<<>>, BlockStatement(<<ExpressionStatement(InfixExpression("+", Number(5), Number(3)))>>)),
    FunctionLiteral(<<>>, BlockStatement(<<ExpressionStatement(Number(1)), ExpressionStatement(Number(2))>>)),
    FunctionLiteral(<<>>, BlockStatement(<<>>)),
    FunctionLiteral(<<>>, BlockStatement(<<LetStatement("a", Number(1))>>)),
    FunctionLiteral(<<>>, BlockStatement(<<ExpressionStatement(IfExpression(BooleanLiteral(TRUE),
        BlockStatement(<<ExpressionStatement(Number(1))>>), <<>>))>>)),
    FunctionLiteral(<<>>, BlockStatement(<<ExpressionStatement(IfExpression(BooleanLiteral(FALSE),
        BlockStatement(<<ExpressionStatement(Number(1))>>), <<>>))>>)),
    FunctionLiteral(<<>>, BlockStatement(<<ExpressionStatement(IfExpression(BooleanLiteral(TRUE),
        BlockStatement(<<ReturnStatement(Number(1))>>), <<>>))>>)),
    FunctionLiteral(<<>>, BlockStatement(<<ReturnStatement(Number(1)), ExpressionStatement(Number(2))>>)),
    FunctionLiteral(<<"a">>, BlockStatement(<<ExpressionStatement(Identifier("a"))>>)) }

\* A program that is one function literal.
ReturningPrograms == {Program(<<ExpressionStatement(f)>>) : f \in ReturningFunctions}

\* A program of the evaluator's tests of return, with what the evaluation has to give:
\* the integer it evaluates to, the integers bound to names of the program's
\* environment afterwards, and the names not bound in it.
UnwindCase(program, value, bindings, unbound) ==
  [program |-> program, value |-> value, bindings |-> bindings, unbound |-> unbound]

\* 'evaluate return statement' and 'evaluate while statements', with statements after
\* the return that leave a mark when they are evaluated.
UnwindCases ==
  LET Do(e) == ExpressionStatement(e)
      Block(statements) == BlockStatement(statements)
      If(condition, statements) == Do(IfExpression(condition, Block(statements), <<>>))
      While(condition, statements) == Do(WhileExpression(condition, Block(statements)))
      Op(operator, left, right) == InfixExpression(operator, left, right)
      T == BooleanLiteral(TRUE)
      a == Identifier("a")
      b == Identifier("b")
  IN { \* return 7;
       UnwindCase(Program(<<ReturnStatement(Number(7))>>), 7, <<>>, {}),
       \* return 7; let b = 9;
       UnwindCase(Program(<<ReturnStatement(Number(7)), LetStatement("b", Number(9))>>),
                  7, <<>>, {"b"}),
       \* 9; return 2 * 3; let b = 9;
       UnwindCase(Program(<<Do(Number(9)), ReturnStatement(Op("*", Number(2), Number(3))),
                            LetStatement("b", Number(9))>>), 6, <<>>, {"b"}),
       \* let b = 0; if (7 > 1) { if (7 > 1) { return 7; } b = 1; return 1; } b = 2;
       UnwindCase(Program(<<LetStatement("b", Number(0)),
                            If(Op(">", Number(7), Number(1)),
                               <<If(Op(">", Number(7), Number(1)), <<ReturnStatement(Number(7))>>),
                                 ReassignStatement("b", Number(1)),
                                 ReturnStatement(Number(1))>>),
                            ReassignStatement("b", Number(2))>>), 7, << <<"b", 0>> >>, {}),
       \* let a = 0; let b = 0;
       \* while (a < 3) { a = a + 1; if (a == 2) { return a; } b = b + 1; } b = 9;
       UnwindCase(Program(<<LetStatement("a", Number(0)), LetStatement("b", Number(0)),
                            While(Op("<", a, Number(3)),
                                  <<ReassignStatement("a", Op("+", a, Number(1))),
                                    If(Op("==", a, Number(2)), <<ReturnStatement(a)>>),
                                    ReassignStatement("b", Op("+", b, Number(1)))>>),
                            ReassignStatement("b", Number(9))>>),
                  2, << <<"a", 2>>, <<"b", 1>> >>, {}),
       \* let b = 0; let f = fn() { if (true) { return 7; } b = 1; };
       \* let c = f(); b = b + 2; c;
       UnwindCase(Program(<<LetStatement("b", Number(0)),
                            LetStatement("f", FunctionLiteral(<<>>,
                              Block(<<If(T, <<ReturnStatement(Number(7))>>),
                                      ReassignStatement("b", Number(1))>>))),
                            LetStatement("c", CallExpression(Identifier("f"), <<>>)),
                            ReassignStatement("b", Op("+", b, Number(2))),
                            Do(Identifier("c"))>>),
                  7, << <<"b", 2>>, <<"c", 7>> >>, {}),
       \* let b = 0;
       \* let f = fn() { while (true) { while (true) { return 5; } b = 1; } b = 2; };
       \* f() + 1;
       UnwindCase(Program(<<LetStatement("b", Number(0)),
                            LetStatement("f", FunctionLiteral(<<>>,
                              Block(<<While(T, <<While(T, <<ReturnStatement(Number(5))>>),
                                                 ReassignStatement("b", Number(1))>>),
                                      ReassignStatement("b", Number(2))>>))),
                            Do(Op("+", CallExpression(Identifier("f"), <<>>), Number(1)))>>),
                  6, << <<"b", 0>> >>, {}) }

\* The same with the if block that returns being the value of a let statement or an
\* operand.
OperandUnwindCases ==
  LET Do(e) == ExpressionStatement(e)
      Returning(n) ==
        IfExpression(BooleanLiteral(TRUE), BlockStatement(<<ReturnStatement(Number(n))>>), <<>>)
  IN { \* let b = 0; let a = if (true) { return 1; }; b = 2;
       UnwindCase(Program(<<LetStatement("b", Number(0)), LetStatement("a", Returning(1)),
                            ReassignStatement("b", Number(2))>>), 1, << <<"b", 0>> >>, {"a"}),
       \* let b = 0; let f = fn() { 1 + if (true) { return 2; }; b = 1; }; f();
       UnwindCase(Program(<<LetStatement("b", Number(0)),
                            LetStatement("f", FunctionLiteral(<<>>,
                              BlockStatement(<<Do(InfixExpression("+", Number(1), Returning(2))),
                                               ReassignStatement("b", Number(1))>>))),
                            Do(CallExpression(Identifier("f"), <<>>))>>),
                  2, << <<"b", 0>> >>, {}) }

UnwindPrograms == {case.program : case \in UnwindCases \cup OperandUnwindCases}

\* The programs of 'evaluate reassign statements' that give an integer, and programs
\* in which a function body lets a name only: with the integer each has to give and
\* the integers its names are to be bound to in the program's environment afterwards.
ReassignCases ==
  LET Do(e) == ExpressionStatement(e)
      Fn(parameters, statements) == FunctionLiteral(parameters, BlockStatement(statements))
      a == Identifier("a")
      b == Identifier("b")
  IN { \* let a = 5; a = 10; a;
       UnwindCase(Program(<<LetStatement("a", Number(5)), ReassignStatement("a", Number(10)),
                            Do(a)>>), 10, << <<"a", 10>> >>, {}),
       \* let a = 5; let b = a; a = 10; b;
       UnwindCase(Program(<<LetStatement("a", Number(5)), LetStatement("b", a),
                            ReassignStatement("a", Number(10)), Do(b)>>),
                  5, << <<"a", 10>>, <<"b", 5>> >>, {}),
       \* let a = 5; let c = 1; let b = fn() { a = 10; return a; }; b();
       UnwindCase(Program(<<LetStatement("a", Number(5)), LetStatement("c", Number(1)),
                            LetStatement("b", Fn(<<>>, <<ReassignStatement("a", Number(10)),
                                                         ReturnStatement(a)>>)),
                            Do(CallExpression(b, <<>>))>>),
                  10, << <<"a", 10>>, <<"c", 1>> >>, {}),
       \* let a = 1; let b = fn() { let a = 2; let c = 3; a }; b();
       UnwindCase(Program(<<LetStatement("a", Number(1)),
                            LetStatement("b", Fn(<<>>, <<LetStatement("a", Number(2)),
                                                         LetStatement("c", Number(3)), Do(a)>>)),
                            Do(CallExpression(b, <<>>))>>),
                  2, << <<"a", 1>> >>, {"c"}) }

\* Programs that reassign a name bound in the function's environment and in the
\* program's: by a let in the body, and as a parameter.
ShadowedReassignCases ==
  LET Do(e) == ExpressionStatement(e)
      Fn(parameters, statements) == FunctionLiteral(parameters, BlockStatement(statements))
      a == Identifier("a")
      b == Identifier("b")
  IN { \* let a = 1; let b = fn() { let a = 2; a = 3; a }; b();
       UnwindCase(Program(<<LetStatement("a", Number(1)),
                            LetStatement("b", Fn(<<>>, <<LetStatement("a", Number(2)),
                                                         ReassignStatement("a", Number(3)),
                                                         Do(a)>>)),
                            Do(CallExpression(b, <<>>))>>),
                  3, << <<"a", 1>> >>, {}),
       \* let a = 1; let c = 2; let b = fn(a) { a = 5; c = 6; a }; b(4);
       UnwindCase(Program(<<LetStatement("a", Number(1)), LetStatement("c", Number(2)),
                            LetStatement("b", Fn(<<"a">>, <<ReassignStatement("a", Number(5)),
                                                          ReassignStatement("c", Number(6)),
                                                          Do(a)>>)),
                            Do(CallExpression(b, <<Number(4)>>))>>),
                  5, << <<"a", 1>>, <<"c", 6>> >>, {}) }

ReassignPrograms == {case.program : case \in ReassignCases \cup ShadowedReassignCases}

SourceInputs ==
  { SourceInput(program) :
      program \in IfPrograms \cup FunctionPrograms \cup Corpus \cup ComparisonPrograms
                    \cup DivisionPrograms \cup VmTests \cup IndexPrograms
                    \cup ReturningPrograms \cup UnwindPrograms \cup ReassignPrograms }

\* The instruction repeated n times.
RECURSIVE Repeat(_, _)
Repeat(instruction, n) == IF n = 0 THEN <<>> ELSE instruction \o Repeat(instruction, n - 1)

\* The constant pool of the assembled programs: 7, "ab", and the functions after them.
AssembledValues == << IntegerObject(7, 101), StringObject(TextAB, 102) >>
PushSeven == make(Opcode.OpConstant, <<0>>)

\* A function of p parameters and l more locals, that ends with ReturnValue or Return:
\*   fn(..) { let x = 7; x }   fn(a, ..) { a }   fn() { 7 }   and the same ending in Return.
AssembledBody(p, l, withValue) ==
  concatInstructions(<<
    IF l > 0 THEN PushSeven \o make(LaterOpcode.OpSetLocal, <<p>>) ELSE <<>>,
    IF ~withValue THEN make(LaterOpcode.OpReturn, <<>>)
    ELSE (IF l > 0 THEN make(LaterOpcode.OpGetLocal, <<p>>)
          ELSE IF p > 0 THEN make(LaterOpcode.OpGetLocal, <<0>>)
          ELSE PushSeven) \o make(LaterOpcode.OpReturnValue, <<>>) >>)

\* d values below; the closure of a function of p parameters called with n arguments.
ClosureCallProgram(p, n, l, withValue, d) ==
  Bytecode(
    concatInstructions(<<
      Repeat(PushSeven, d),
      make(LaterOpcode.OpClosure, <<2, 0>>),
      Repeat(PushSeven, n),
      make(LaterOpcode.OpCall, <<n>>),
      make(Opcode.OpPop, <<>>) >>),
    AssembledValues \o <<CompiledFunctionObject(AssembledBody(p, l, withValue), p + l, p, 103)>>)

ClosureCallPrograms ==
  { ClosureCallProgram(p, n, l, withValue, d) :
      p \in 0..MaxParameters, n \in 0..MaxArguments, l \in 0..MaxExtraLocals,
      withValue \in BOOLEAN, d \in 0..MaxDepth }

\* The code that pushes an argument: 7, "ab" or [7].
ArgumentCode ==
  << PushSeven,
     make(Opcode.OpConstant, <<1>>),
     PushSeven \o make(Opcode.OpArray, <<1>>) >>

RECURSIVE ArgumentsCode(_)
ArgumentsCode(kinds) ==
  IF kinds = <<>> THEN <<>> ELSE ArgumentCode[Head(kinds)] \o ArgumentsCode(Tail(kinds))

\* d values below; builtin number b called with the arguments of the given kinds.
BuiltinCallProgram(b, kinds, d) ==
  Bytecode(
    concatInstructions(<<
      Repeat(PushSeven, d),
      make(LaterOpcode.OpGetBuiltin, <<b>>),
      ArgumentsCode(kinds),
      make(LaterOpcode.OpCall, <<Len(kinds)>>),
      make(Opcode.OpPop, <<>>) >>),
    AssembledValues)

BuiltinCallPrograms ==
  { BuiltinCallProgram(b, kinds, d) :
      b \in 0..Len(BuiltinNames), kinds \in SeqsUpTo(1..3, MaxArguments), d \in 0..MaxDepth }

\* d values below; the closure of fn() { <free variable i> } over the values of the
\* given kinds, called.
FreeVariableProgram(kinds, i, d) ==
  Bytecode(
    concatInstructions(<<
      Repeat(PushSeven, d),
      ArgumentsCode(kinds),
      make(LaterOpcode.OpClosure, <<2, Len(kinds)>>),
      make(LaterOpcode.OpCall, <<0>>),
      make(Opcode.OpPop, <<>>) >>),
    AssembledValues \o
      << CompiledFunctionObject(
           make(LaterOpcode.OpGetFree, <<i>>) \o make(LaterOpcode.OpReturnValue, <<>>),
           0, 0, 103) >>)

FreeVariablePrograms ==
  { FreeVariableProgram(kinds, i, d) :
      kinds \in SeqsUpTo(1..3, MaxFree), i \in 0..MaxFree, d \in 0..MaxDepth }

\* let f = fn() { f() }; f();  with l locals in f: the recursion that never returns.
RecursionProgram(l) ==
  Bytecode(
    concatInstructions(<<
      make(LaterOpcode.OpClosure, <<0, 0>>),
      make(LaterOpcode.OpCall, <<0>>),
      make(Opcode.OpPop, <<>>) >>),
    << CompiledFunctionObject(
         concatInstructions(<<
           make(LaterOpcode.OpCurrentClosure, <<>>),
           make(LaterOpcode.OpCall, <<0>>),
           make(LaterOpcode.OpReturnValue, <<>>) >>), l, 0, 103) >>)

\* let g = fn(x) { x }; fn() { g(7) }();   g is a free variable of the outer function.
NestedCallProgram ==
  Bytecode(
    concatInstructions(<<
      make(LaterOpcode.OpClosure, <<2, 0>>),
      make(LaterOpcode.OpClosure, <<3, 1>>),
      make(LaterOpcode.OpCall, <<0>>),
      make(Opcode.OpPop, <<>>) >>),
    AssembledValues \o
      << CompiledFunctionObject(
           make(LaterOpcode.OpGetLocal, <<0>>) \o make(LaterOpcode.OpReturnValue, <<>>), 1, 1, 103),
         CompiledFunctionObject(
           concatInstructions(<<
             make(LaterOpcode.OpGetFree, <<0>>),
             PushSeven,
             make(LaterOpcode.OpCall, <<1>>),
             make(LaterOpcode.OpReturnValue, <<>>) >>), 0, 0, 104) >>)

OtherPrograms ==
  { RecursionProgram(0), RecursionProgram(2), NestedCallProgram,
    \* a byte that is no opcode
    Bytecode(<<255, 0>>, <<>>),
    \* 7(): a call of a value that is no function
    Bytecode(PushSeven \o make(LaterOpcode.OpCall, <<0>>) \o make(Opcode.OpPop, <<>>),
             AssembledValues),
    \* a closure of a constant that is no function
    Bytecode(make(LaterOpcode.OpClosure, <<0, 0>>) \o make(Opcode.OpPop, <<>>), AssembledValues) }

\* The call of the closure of a function the compiler made: the constants of the
\* compilation of the literal, of which the function is the last, its closure called
\* with as many arguments 7 as it has parameters.
CalledFunctionProgram(literal) ==
  LET compiled == compile(Compiler(<<SymbolTable(0)>>, <<>>, 101),
                          Program(<<ExpressionStatement(literal)>>))
  IN Bytecode(
       concatInstructions(<<
         make(LaterOpcode.OpClosure, <<Len(compiled.constants) - 1, 0>>),
         Repeat(make(Opcode.OpConstant, <<Len(compiled.constants)>>), Len(literal.parameters)),
         make(LaterOpcode.OpCall, <<Len(literal.parameters)>>),
         make(Opcode.OpPop, <<>>) >>),
       compiled.constants \o <<IntegerObject(7, 100)>>)

CalledFunctionPrograms == {CalledFunctionProgram(literal) : literal \in ReturningFunctions}

\* fn() { <free variable 0> }, the function the programs below make closures of.
ReadsFree ==
  CompiledFunctionObject(
    make(LaterOpcode.OpGetFree, <<0>>) \o make(LaterOpcode.OpReturnValue, <<>>), 0, 0, 103)

\* let a = 7; let f = fn() { a }; a = "ab"; f(); fn() { a }; f();  with the closure
\* over the value of a, as a function that is no top level would be compiled:
\* the slot the value was taken from is stored to after the closure was built.
CaptureGlobalProgram ==
  Bytecode(
    concatInstructions(<<
      PushSeven, make(Opcode.OpSetGlobal, <<0>>),
      make(Opcode.OpGetGlobal, <<0>>), make(LaterOpcode.OpClosure, <<2, 1>>),
      make(Opcode.OpSetGlobal, <<1>>),
      make(Opcode.OpConstant, <<1>>), make(Opcode.OpSetGlobal, <<0>>),
      make(Opcode.OpGetGlobal, <<1>>), make(LaterOpcode.OpCall, <<0>>), make(Opcode.OpPop, <<>>),
      make(Opcode.OpGetGlobal, <<0>>), make(LaterOpcode.OpClosure, <<2, 1>>),
      make(Opcode.OpPop, <<>>),
      make(Opcode.OpGetGlobal, <<1>>), make(LaterOpcode.OpCall, <<0>>),
      make(Opcode.OpPop, <<>>) >>),
    AssembledValues \o <<ReadsFree>>)

\* fn() { let a = 7; let f = fn() { a }; let a = "ab" (into the slot of a); f(); f }()();
\* the closure is called in the frame that built it and after that frame returned.
CaptureLocalProgram ==
  Bytecode(
    concatInstructions(<<
      make(LaterOpcode.OpClosure, <<3, 0>>),
      make(LaterOpcode.OpCall, <<0>>),
      make(LaterOpcode.OpCall, <<0>>),
      make(Opcode.OpPop, <<>>) >>),
    AssembledValues \o
      << ReadsFree,
         CompiledFunctionObject(
           concatInstructions(<<
             PushSeven, make(LaterOpcode.OpSetLocal, <<0>>),
             make(LaterOpcode.OpGetLocal, <<0>>), make(LaterOpcode.OpClosure, <<2, 1>>),
             make(LaterOpcode.OpSetLocal, <<1>>),
             make(Opcode.OpConstant, <<1>>), make(LaterOpcode.OpSetLocal, <<0>>),
             make(LaterOpcode.OpGetLocal, <<1>>), make(LaterOpcode.OpCall, <<0>>),
             make(Opcode.OpPop, <<>>),
             make(LaterOpcode.OpGetLocal, <<1>>),
             make(LaterOpcode.OpReturnValue, <<>>) >>), 2, 0, 104) >>)

CapturePrograms == {CaptureGlobalProgram, CaptureLocalProgram}

\* Functions that read a local after other statements:
\*   fn() { let a = 1; 7; a }   fn(a) { 1; a }   fn() { let a = 1; if (true) { }; 7; a }
\*   fn() { let a = 1; let a = 2; 7; a }
LocalsFunctions ==
  { FunctionLiteral(<<>>, BlockStatement(<<LetStatement("a", Number(1)),
        ExpressionStatement(Number(7)), ExpressionStatement(Identifier("a"))>>)),
    FunctionLiteral(<<"a">>, BlockStatement(<<ExpressionStatement(Number(1)),
        ExpressionStatement(Identifier("a"))>>)),
    FunctionLiteral(<<>>, BlockStatement(<<LetStatement("a", Number(1)),
        ExpressionStatement(IfExpression(BooleanLiteral(TRUE), BlockStatement(<<>>), <<>>)),
        ExpressionStatement(Number(7)), ExpressionStatement(Identifier("a"))>>)),
    FunctionLiteral(<<>>, BlockStatement(<<LetStatement("a", Number(1)),
        LetStatement("a", Number(2)),
        ExpressionStatement(Number(7)), ExpressionStatement(Identifier("a"))>>)) }

AssembledInputs ==
  { AssembledInput(code) :
      code \in ClosureCallPrograms \cup BuiltinCallPrograms \cup FreeVariablePrograms
                 \cup OtherPrograms \cup CalledFunctionPrograms
                 \cup {CalledFunctionProgram(literal) : literal \in LocalsFunctions}
                 \cup CapturePrograms }

Inputs == SourceInputs \cup AssembledInputs

(***************************************************************************)
(* The specification of compiling and running a program.                   *)
(***************************************************************************)
Init ==
  /\ input \in Inputs
  /\ phase = IF input.kind = "source" THEN "source" ELSE "bytecode"
  /\ compiler = Compiler(<<SymbolTable(0)>>, <<>>, 1)
  /\ constants = <<>>
  /\ globals = <<>>
  /\ stack = <<>>
  /\ stackPointer = 0
  /\ frames = <<>>
  /\ framesIndex = 0
  /\ thrown = NoError
  /\ nextRef = 1
  /\ calls = <<>>
  /\ lastCall = NoCall
  /\ lastReturn = NoReturn
  /\ tables = <<>>
  /\ lastResolve = NoResolve
  /\ defineCalls = <<>>
  /\ lastDefine = NoDefine
  /\ lastBinary = NoBinary
  /\ lastExecuted = NotExecuted
  /\ coded = NotCoded
  /\ emitted = <<>>
  /\ session = NoSession
  /\ evaluated = NotEvaluated
  /\ hashKeys = <<>>

Next ==
  \/ Evaluate
  \/ Compile
  \/ NewVM
  \/ RunReturns
  \/ ExecConstant
  \/ ExecBinaryOperation
  \/ ExecPop
  \/ ExecTrue
  \/ ExecFalse
  \/ ExecNull
  \/ ExecComparison
  \/ ExecMinus
  \/ ExecBang
  \/ ExecJumpNotTruthy
  \/ ExecJump
  \/ ExecSetGlobal
  \/ ExecSetLocal
  \/ ExecGetGlobal
  \/ ExecGetLocal
  \/ ExecGetBuiltin
  \/ ExecGetFree
  \/ ExecArray
  \/ ExecHash
  \/ ExecIndex
  \/ ExecClosure
  \/ ExecCurrentClosure
  \/ ExecCall
  \/ ExecReturnValue
  \/ ExecReturn
  \/ ExecUnknownOpcode

Spec == Init /\ [][Next]_vars

(***************************************************************************)
(* The specification of the symbol table on its own: tables are created,   *)
(* names defined and resolved in any order.                                *)
(***************************************************************************)
MaxTables == 4
MaxDefinitions == 2
MaxBuiltIns == 1
Names == {"a", "b"}

TotalDefinitions == SumSeq([t \in 1..Len(tables) |-> tables[t].numberDefinitions])

\* The BuiltIn symbols the stores hold.
BuiltInsDefined ==
  SumSeq([t \in 1..Len(tables) |->
            Cardinality({name \in DOMAIN tables[t].store :
                           tables[t].store[name].scope = SymbolScope.BuiltIn})])

SymbolInit ==
  /\ phase = "symbols"
  /\ input = AssembledInput(Bytecode(<<>>, <<>>))
  /\ compiler = Compiler(<<SymbolTable(0)>>, <<>>, 1)
  /\ constants = <<>>
  /\ globals = <<>>
  /\ stack = <<>>
  /\ stackPointer = 0
  /\ frames = <<>>
  /\ framesIndex = 0
  /\ thrown = NoError
  /\ nextRef = 1
  /\ calls = <<>>
  /\ lastCall = NoCall
  /\ lastReturn = NoReturn
  /\ tables = <<SymbolTable(0)>>
  /\ lastResolve = NoResolve
  /\ defineCalls = <<0>>
  /\ lastDefine = NoDefine
  /\ lastBinary = NoBinary
  /\ lastExecuted = NotExecuted
  /\ coded = NotCoded
  /\ emitted = <<>>
  /\ session = NoSession
  /\ evaluated = NotEvaluated
  /\ hashKeys = <<>>

SymbolFrame ==
  UNCHANGED <<phase, input, compiler, vmVars, thrown, nextRef, historyVars, resultVars>>

\* new SymbolTable(outer): the table enterScope() makes.  It encloses the innermost
\* table there is: the tables a compiler holds are nested one in the other.
NewEnclosedTable ==
  /\ Len(tables) < MaxTables
  /\ tables' = Append(tables, SymbolTable(Len(tables)))
  /\ defineCalls' = Append(defineCalls, 0)
  /\ lastResolve' = NoResolve
  /\ lastDefine' = NoDefine
  /\ SymbolFrame

Define ==
  /\ TotalDefinitions < MaxDefinitions
  /\ \E t \in 1..Len(tables), name \in Names :
       LET defined == define(tables, t, name)
       IN /\ tables' = defined.tables
          /\ defineCalls' = [defineCalls EXCEPT ![t] = @ + 1]
          /\ lastDefine' = DefineRecord(TRUE, t, name, defineCalls[t], tables, defined.symbol)
  /\ lastResolve' = NoResolve
  /\ SymbolFrame

\* defineBuiltIn(index, name), called on the global table as its callers do
DefineBuiltIn ==
  /\ BuiltInsDefined < MaxBuiltIns
  /\ \E name \in Names : tables' = defineBuiltIn(tables, 1, BuiltInsDefined, name).tables
  /\ lastResolve' = NoResolve
  /\ lastDefine' = NoDefine
  /\ UNCHANGED defineCalls
  /\ SymbolFrame

Resolve ==
  /\ \E t \in 1..Len(tables), name \in Names :
       LET result == resolve(tables, t, name)
       IN /\ tables' = result.tables
          /\ lastResolve' = ResolveRecord(TRUE, t, name, tables, result)
  /\ lastDefine' = NoDefine
  /\ UNCHANGED defineCalls
  /\ SymbolFrame

SymbolNext == NewEnclosedTable \/ Define \/ DefineBuiltIn \/ Resolve

SymbolSpec == SymbolInit /\ [][SymbolNext]_vars

(***************************************************************************)
(* The specification of hashKey() on its own: two Hashable objects are     *)
(* made and the hash key of each is computed.                              *)
(***************************************************************************)
MaxKeyLen == 2
KeyChars == {65, 66, 97, 49}    \* "A", "B", "a", "1"

\* The Integer value whose hash key is the hash key of the empty String: the String
\* salt less the Integer salt.
EmptyStringKeyValue ==
  LET difference == Wide(hashString(ObjectTypeChars.STRING).high
                           - hashString(ObjectTypeChars.INTEGER).high,
                         hashString(ObjectTypeChars.STRING).low
                           - hashString(ObjectTypeChars.INTEGER).low)
  IN difference.high * 65536 + difference.low

KeyValues(ref) ==
  {IntegerObject(value, ref) : value \in (-1..2) \cup {EmptyStringKeyValue}}
    \cup {TRUE_OBJECT, FALSE_OBJECT}
    \cup {StringObject(str, ref) : str \in SeqsUpTo(KeyChars, MaxKeyLen)}

KeysInput(first, second) == [kind |-> "keys", first |-> first, second |-> second]

HashInit ==
  /\ phase = "keys"
  /\ input \in {KeysInput(first, second) : first \in KeyValues(1), second \in KeyValues(2)}
  /\ compiler = Compiler(<<SymbolTable(0)>>, <<>>, 3)
  /\ constants = <<>>
  /\ globals = <<>>
  /\ stack = <<>>
  /\ stackPointer = 0
  /\ frames = <<>>
  /\ framesIndex = 0
  /\ thrown = NoError
  /\ nextRef = 3
  /\ calls = <<>>
  /\ lastCall = NoCall
  /\ lastReturn = NoReturn
  /\ tables = <<>>
  /\ lastResolve = NoResolve
  /\ defineCalls = <<>>
  /\ lastDefine = NoDefine
  /\ lastBinary = NoBinary
  /\ lastExecuted = NotExecuted
  /\ coded = NotCoded
  /\ emitted = <<>>
  /\ session = NoSession
  /\ evaluated = NotEvaluated
  /\ hashKeys = <<>>

\* first.hashKey(); second.hashKey()
HashKeys ==
  /\ phase = "keys"
  /\ hashKeys' = <<hashKey(input.first), hashKey(input.second)>>
  /\ phase' = "hashed"
  /\ UNCHANGED <<input, compiler, vmVars, thrown, nextRef, historyVars, symbolVars, evaluated,
                 coded, emitted>>

HashNext == HashKeys

HashSpec == HashInit /\ [][HashNext]_vars

(***************************************************************************)
(* The REPL: each line is compiled by a new Compiler on the symbol table   *)
(* and the constants of the lines before, and run by a new VM on the       *)
(* globals array of the lines before.                                      *)
(***************************************************************************)
MaxLines == 3

\* let a = 1;   let b = 2;   a;   b;   let a = 3; a;   let b = a;   let a = 1; b;
\* let b = -true;
ReplPrograms ==
  { Program(<<LetStatement("a", Number(1))>>),
    Program(<<LetStatement("b", Number(2))>>),
    Program(<<ExpressionStatement(Identifier("a"))>>),
    Program(<<ExpressionStatement(Identifier("b"))>>),
    Program(<<LetStatement("a", Number(3)), ExpressionStatement(Identifier("a"))>>),
    Program(<<LetStatement("b", Identifier("a"))>>),
    Program(<<LetStatement("a", Number(1)), ExpressionStatement(Identifier("b"))>>),
    Program(<<LetStatement("b", PrefixExpression("-", BooleanLiteral(TRUE)))>>) }

ReplInit ==
  /\ phase = "prompt"
  /\ input = SourceInput(Program(<<>>))
  /\ compiler = Compiler(<<SymbolTable(0)>>, <<>>, 1)
  /\ constants = <<>>
  /\ globals = <<>>
  /\ stack = <<>>
  /\ stackPointer = 0
  /\ frames = <<>>
  /\ framesIndex = 0
  /\ thrown = NoError
  /\ nextRef = 1
  /\ calls = <<>>
  /\ lastCall = NoCall
  /\ lastReturn = NoReturn
  /\ tables = <<>>
  /\ lastResolve = NoResolve
  /\ defineCalls = <<>>
  /\ lastDefine = NoDefine
  /\ lastBinary = NoBinary
  /\ lastExecuted = NotExecuted
  /\ evaluated = NotEvaluated
  /\ hashKeys = <<>>
  /\ coded = NotCoded
  /\ emitted = <<>>
  /\ session = NoSession

\* process.stdin.on('data', ...): the next line, parsed.
ReadLine ==
  /\ phase \in {"prompt", "returned", "thrown", "compile error"}
  /\ session.lines < MaxLines
  /\ \E program \in ReplPrograms : input' = SourceInput(program)
  /\ phase' = "line"
  /\ session' = [session EXCEPT !.lines = @ + 1]
  /\ lastExecuted' = NotExecuted
  /\ UNCHANGED <<compiler, vmVars, thrown, nextRef, calls, lastCall, lastReturn, lastBinary,
                 symbolVars, resultVars>>

\* new Compiler(symbolTable, constants).compile(program): the symbol table and the
\* constants the compilers before worked on.
CompileLine ==
  /\ phase = "line"
  /\ LET compiled == compile(Compiler(<<compiler.tables[1]>>, compiler.constants, nextRef),
                             input.program)
     IN /\ compiler' = compiled
        /\ thrown' = compiled.thrown
        /\ nextRef' = compiled.nextRef
        /\ phase' = IF HasThrown(compiled) THEN "compile error" ELSE "bytecode"
  /\ UNCHANGED <<input, vmVars, historyVars, symbolVars, resultVars>>

ReplNext ==
  \/ ReadLine
  \/ CompileLine
  \/ NewVM
  \/ RunReturns
  \/ ExecConstant
  \/ ExecPop
  \/ ExecSetGlobal
  \/ ExecGetGlobal
  \/ ExecTrue
  \/ ExecMinus

ReplSpec == ReplInit /\ [][ReplNext]_vars

(***************************************************************************)
(* Compilations of one hash literal, each on a new Compiler: the literal   *)
(* twice, and the literal with its pairs stored in another order.          *)
(***************************************************************************)
MaxPairs == 3

LiteralKeys == {Number(1), Number(2), StringLiteral(<<97>>)}
LiteralValues == {Number(3), Number(4)}
LiteralPairs == {<<key, value>> : key \in LiteralKeys, value \in LiteralValues}

\* The orders the pairs of a Map can be stored in.
Reorderings(pairs) ==
  { [i \in 1..Len(pairs) |-> pairs[order[i]]] :
      order \in {f \in [1..Len(pairs) -> 1..Len(pairs)] :
                   \A i, j \in 1..Len(pairs) : i # j => f[i] # f[j]} }

LiteralInput(pairs, reordered) ==
  [kind |-> "literal", pairs |-> pairs, reordered |-> reordered]

OrderInit ==
  /\ phase = "literal"
  /\ input \in UNION { {LiteralInput(pairs, reordered) : reordered \in Reorderings(pairs)} :
                        pairs \in SeqsUpTo(LiteralPairs, MaxPairs) }
  /\ compiler = Compiler(<<SymbolTable(0)>>, <<>>, 1)
  /\ constants = <<>>
  /\ globals = <<>>
  /\ stack = <<>>
  /\ stackPointer = 0
  /\ frames = <<>>
  /\ framesIndex = 0
  /\ thrown = NoError
  /\ nextRef = 1
  /\ calls = <<>>
  /\ lastCall = NoCall
  /\ lastReturn = NoReturn
  /\ tables = <<>>
  /\ lastResolve = NoResolve
  /\ defineCalls = <<>>
  /\ lastDefine = NoDefine
  /\ lastBinary = NoBinary
  /\ lastExecuted = NotExecuted
  /\ evaluated = NotEvaluated
  /\ hashKeys = <<>>
  /\ coded = NotCoded
  /\ emitted = <<>>
  /\ session = NoSession

\* new Compiler().compile(program); compiler.bytecode(), for the program of one
\* expression statement, the hash literal of the pairs.
CompiledLiteral(pairs) ==
  bytecode(compile(Compiler(<<SymbolTable(0)>>, <<>>, 1),
                   Program(<<ExpressionStatement(HashLiteral(pairs))>>)))

OrderFrame ==
  UNCHANGED <<input, compiler, vmVars, thrown, nextRef, historyVars, symbolVars, evaluated,
              hashKeys, coded>>

\* The first and the second compilation of the literal.
CompileLiteral ==
  /\ phase \in {"literal", "once"}
  /\ emitted' = Append(emitted, CompiledLiteral(input.pairs))
  /\ phase' = IF phase = "literal" THEN "once" ELSE "twice"
  /\ OrderFrame

\* The compilation of the literal whose Map holds the pairs in the other order.
CompileReordered ==
  /\ phase = "twice"
  /\ emitted' = Append(emitted, CompiledLiteral(input.reordered))
  /\ phase' = "reordered"
  /\ OrderFrame

OrderNext == CompileLiteral \/ CompileReordered

OrderSpec == OrderInit /\ [][OrderNext]_vars

(***************************************************************************)
(* make() and readOperands() on an opcode and operands of its widths.      *)
(***************************************************************************)
\* The bytes and the 2-byte values the operands are drawn from.
Uint8Samples == {0, 1, 127, 128, 254, 255}
Uint16Samples == {high * 256 + low : high \in Uint8Samples, low \in Uint8Samples}

\* The operand tuples of the widths from the i-th on.
RECURSIVE OperandTuples(_, _)
OperandTuples(widths, i) ==
  IF i > Len(widths) THEN {<<>>}
  ELSE { <<operand>> \o rest :
           operand \in (IF widths[i] = 2 THEN Uint16Samples ELSE Uint8Samples),
           rest \in OperandTuples(widths, i + 1) }

DefinedOpcodes == DOMAIN DEFINITIONS \cup DOMAIN LaterDefinitions

CodeInput(op, operands) == [kind |-> "code", op |-> op, operands |-> operands]

CodeInit ==
  /\ phase = "operands"
  /\ input \in { CodeInput(op, operands) :
                    op \in DefinedOpcodes,
                    operands \in UNION {OperandTuples(Definition(o).operandWidths, 1) :
                                          o \in DefinedOpcodes} }
  /\ Len(input.operands) = Len(Definition(input.op).operandWidths)
  /\ input.operands \in OperandTuples(Definition(input.op).operandWidths, 1)
  /\ compiler = Compiler(<<SymbolTable(0)>>, <<>>, 1)
  /\ constants = <<>>
  /\ globals = <<>>
  /\ stack = <<>>
  /\ stackPointer = 0
  /\ frames = <<>>
  /\ framesIndex = 0
  /\ thrown = NoError
  /\ nextRef = 1
  /\ calls = <<>>
  /\ lastCall = NoCall
  /\ lastReturn = NoReturn
  /\ tables = <<>>
  /\ lastResolve = NoResolve
  /\ defineCalls = <<>>
  /\ lastDefine = NoDefine
  /\ lastBinary = NoBinary
  /\ lastExecuted = NotExecuted
  /\ evaluated = NotEvaluated
  /\ hashKeys = <<>>
  /\ coded = NotCoded
  /\ emitted = <<>>
  /\ session = NoSession

CodeFrame ==
  UNCHANGED <<input, compiler, vmVars, thrown, nextRef, historyVars, symbolVars, evaluated,
              hashKeys, emitted>>

\* make(op, ...operands)
Make ==
  /\ phase = "operands"
  /\ coded' = [coded EXCEPT !.instruction = make(input.op, input.operands)]
  /\ phase' = "made"
  /\ CodeFrame

\* readOperands(DEFINITIONS[op], instruction.slice(1))
ReadOperands ==
  /\ phase = "made"
  /\ LET read == readOperands(Definition(input.op), Tail(coded.instruction))
     IN coded' = [coded EXCEPT !.operands = read.operands, !.offset = read.offset]
  /\ phase' = "read"
  /\ CodeFrame

CodeNext == Make \/ ReadOperands

CodeSpec == CodeInit /\ [][CodeNext]_vars

(***************************************************************************)
(* The scope and emit methods of a Compiler, called one after the other as *)
(* the scopes test of compiler.test.ts calls them.                         *)
(***************************************************************************)
MaxMethodCalls == 5
MaxScopes == 3

\* The instructions emitted and the operands patched in.
ScopeEmits ==
  { <<Opcode.OpMul, <<>>>>, <<Opcode.OpJumpNotTruthy, <<9999>>>>, <<Opcode.OpConstant, <<1>>>> }
PatchOperands == {0, 258, 65535}

\* The bytes an instruction of the opcode takes.
InstructionWidth(op) ==
  IF HasDefinition(op) THEN 1 + SumSeq(Definition(op).operandWidths) ELSE 1

\* The offsets at which the instructions of a buffer start, from an offset on.
RECURSIVE InstructionStarts(_, _)
InstructionStarts(ins, offset) ==
  IF offset >= Len(ins) THEN {}
  ELSE {offset} \cup InstructionStarts(ins, offset + InstructionWidth(ByteAt(ins, offset)))

\* The last method called: the scopes before it, its arguments (for emit, the
\* opcode and the operand, 0 where the opcode has none), the scope recorded
\* when the scope that leaveScope popped was entered, and the calls counted.
MethodCall(method, c, position, operand, outer) ==
  [method |-> method, scopes |-> c.scopes, scopeIndex |-> c.scopeIndex,
   position |-> position, operand |-> operand, outer |-> outer,
   enters |-> coded.enters + (IF method = "enterScope" THEN 1 ELSE 0),
   leaves |-> coded.leaves + (IF method = "leaveScope" THEN 1 ELSE 0),
   number |-> coded.number + 1]

ScopeInit ==
  /\ phase = "methods"
  /\ input = [kind |-> "methods"]
  /\ compiler = Compiler(<<SymbolTable(0)>>, <<>>, 1)
  /\ constants = <<>>
  /\ globals = <<>>
  /\ stack = <<>>
  /\ stackPointer = 0
  /\ frames = <<>>
  /\ framesIndex = 0
  /\ thrown = NoError
  /\ nextRef = 1
  /\ calls = <<>>
  /\ lastCall = NoCall
  /\ lastReturn = NoReturn
  /\ tables = <<>>
  /\ lastResolve = NoResolve
  /\ defineCalls = <<>>
  /\ lastDefine = NoDefine
  /\ lastBinary = NoBinary
  /\ lastExecuted = NotExecuted
  /\ evaluated = NotEvaluated
  /\ hashKeys = <<>>
  /\ coded = [method |-> "new", scopes |-> <<>>, scopeIndex |-> 0, position |-> 0,
              operand |-> 0, outer |-> CompilationScope, enters |-> 0, leaves |-> 0,
              number |-> 0]
  /\ emitted = <<>>
  /\ session = NoSession

ScopeFrame ==
  UNCHANGED <<phase, input, vmVars, thrown, nextRef, historyVars, symbolVars, evaluated,
              hashKeys>>

\* compiler.enterScope()
EnterScope ==
  /\ phase = "methods"
  /\ coded.number < MaxMethodCalls
  /\ Len(compiler.scopes) < MaxScopes
  /\ compiler' = enterScope(compiler)
  /\ emitted' = Append(emitted, compiler.scopes[compiler.scopeIndex + 1])
  /\ coded' = MethodCall("enterScope", compiler, 0, 0, CompilationScope)
  /\ ScopeFrame

\* compiler.leaveScope()
LeaveScope ==
  /\ phase = "methods"
  /\ coded.number < MaxMethodCalls
  /\ compiler.scopeIndex > 0
  /\ compiler' = leaveScope(compiler)
  /\ emitted' = SubSeq(emitted, 1, Len(emitted) - 1)
  /\ coded' = MethodCall("leaveScope", compiler, 0, 0, emitted[Len(emitted)])
  /\ ScopeFrame

\* compiler.emit(op, ...operands)
Emit ==
  /\ phase = "methods"
  /\ coded.number < MaxMethodCalls
  /\ \E instruction \in ScopeEmits :
       /\ compiler' = emit(compiler, instruction[1], instruction[2])
       /\ coded' = MethodCall("emit", compiler, instruction[1],
                              IF instruction[2] = <<>> THEN 0 ELSE instruction[2][1],
                              CompilationScope)
  /\ emitted' = emitted
  /\ ScopeFrame

\* compiler.changeOperand(opPosition, operand), at an instruction of the buffer
ChangeOperand ==
  /\ phase = "methods"
  /\ coded.number < MaxMethodCalls
  /\ \E opPosition \in InstructionStarts(currentInstructions(compiler), 0),
        operand \in PatchOperands :
       /\ compiler' = changeOperand(compiler, opPosition, operand)
       /\ coded' = MethodCall("changeOperand", compiler, opPosition, operand,
                              CompilationScope)
  /\ emitted' = emitted
  /\ ScopeFrame

ScopeNext == EnterScope \/ LeaveScope \/ Emit \/ ChangeOperand

ScopeSpec == ScopeInit /\ [][ScopeNext]_vars

(***************************************************************************)
(* Instructions.asString(): the loop of the disassembler over the bytes of *)
(* an Instructions object, one iteration a step.                           *)
(***************************************************************************)
MaxBytes == 3
\* The iterations the model follows the loop for.
MaxIterations == 5

\* OpConstant (an operand of 2 bytes), OpAdd (none), OpCall (1 byte), and bytes that
\* are no opcode.
DisassembledBytes == {Opcode.OpConstant, Opcode.OpAdd, LaterOpcode.OpCall, 200, 255}

\* One line of the string: the offset and the instruction, or the error.
InstructionLine(offset, definition, operands) ==
  [error |-> FALSE, offset |-> offset, name |-> definition.name, operands |-> operands]
ErrorLine(byte) == [error |-> TRUE, offset |-> byte, name |-> "", operands |-> <<>>]

\* let string = ''; let i = 0;  with the value of i before the last iteration and
\* the iterations counted.
AsStringStarts == [string |-> <<>>, i |-> 0, before |-> 0, iterations |-> 0]

DisassembleInit ==
  /\ phase = "asString"
  /\ input \in { [kind |-> "bytes", bytes |-> bytes] :
                   bytes \in SeqsUpTo(DisassembledBytes, MaxBytes) }
  /\ compiler = Compiler(<<SymbolTable(0)>>, <<>>, 1)
  /\ constants = <<>>
  /\ globals = <<>>
  /\ stack = <<>>
  /\ stackPointer = 0
  /\ frames = <<>>
  /\ framesIndex = 0
  /\ thrown = NoError
  /\ nextRef = 1
  /\ calls = <<>>
  /\ lastCall = NoCall
  /\ lastReturn = NoReturn
  /\ tables = <<>>
  /\ lastResolve = NoResolve
  /\ defineCalls = <<>>
  /\ lastDefine = NoDefine
  /\ lastBinary = NoBinary
  /\ lastExecuted = NotExecuted
  /\ evaluated = NotEvaluated
  /\ hashKeys = <<>>
  /\ coded = AsStringStarts
  /\ emitted = <<>>
  /\ session = NoSession

DisassembleFrame ==
  UNCHANGED <<input, compiler, vmVars, thrown, nextRef, historyVars, symbolVars, evaluated,
              hashKeys, emitted>>

\* A variant of the iteration that steps over the byte that is no opcode.
instructionsAsStringSkipping(bytes, loop) ==
  LET opCode == ByteAt(bytes, loop.i)
  IN IF ~HasDefinition(opCode)
       THEN [loop EXCEPT !.string = Append(@, ErrorLine(opCode)), !.i = @ + 1,
                         !.before = loop.i, !.iterations = @ + 1]
       ELSE LET read == readOperands(Definition(opCode), Slice(bytes, loop.i + 1, Len(bytes)))
            IN [loop EXCEPT !.string = Append(@, InstructionLine(loop.i, Definition(opCode),
                                                                 read.operands)),
                            !.i = @ + read.offset + 1,
                            !.before = loop.i, !.iterations = @ + 1]

\* One iteration of while (i < this.length): the error line and `continue` for a byte
\* without a definition, else the line of the instruction and i += offset + 1.
instructionsAsString(bytes, loop) ==
  LET opCode == ByteAt(bytes, loop.i)
  IN IF ~HasDefinition(opCode)
       THEN [loop EXCEPT !.string = Append(@, ErrorLine(opCode)),
                         !.before = loop.i, !.iterations = @ + 1]
       ELSE LET read == readOperands(Definition(opCode), Slice(bytes, loop.i + 1, Len(bytes)))
            IN [loop EXCEPT !.string = Append(@, InstructionLine(loop.i, Definition(opCode),
                                                                 read.operands)),
                            !.i = @ + read.offset + 1,
                            !.before = loop.i, !.iterations = @ + 1]

AsStringIterates ==
  /\ phase = "asString"
  /\ coded.i < Len(input.bytes)
  /\ coded.iterations < MaxIterations
  /\ coded' = instructionsAsString(input.bytes, coded)
  /\ phase' = phase
  /\ DisassembleFrame

\* return string
AsStringReturns ==
  /\ phase = "asString"
  /\ ~(coded.i < Len(input.bytes))
  /\ phase' = "disassembled"
  /\ coded' = coded
  /\ DisassembleFrame

DisassembleNext == AsStringIterates \/ AsStringReturns

DisassembleSpec == DisassembleInit /\ [][DisassembleNext]_vars

(***************************************************************************)
(* Properties.                                                             *)
(***************************************************************************)
\* A VM has been constructed.
VMExists == phase \in {"running", "returned", "thrown"}

\* The compiler has compiled the source program without an Error.
Compiled == input.kind = "source" /\ phase \notin {"source", "compile error", "symbols"}

\* The program is one expression statement that is an if-expression.
IsIfProgram ==
  /\ input.kind = "source"
  /\ Len(input.program.statements) = 1
  /\ input.program.statements[1].node = "ExpressionStatement"
  /\ input.program.statements[1].expression.node = "IfExpression"

\* The program consists of expression statements only.
IsExpressionStatements ==
  /\ input.kind = "source"
  /\ input.program.statements # <<>>
  /\ \A i \in 1..Len(input.program.statements) :
       input.program.statements[i].node = "ExpressionStatement"

\* The instruction streams of the compiled program: the main one and the one of
\* each compiled function.
Streams ==
  {currentInstructions(compiler)} \cup
  { compiler.constants[i].instructions :
      i \in {k \in 1..Len(compiler.constants) :
               compiler.constants[k].type = "CompiledFunctionObject"} }

CompiledFunctions ==
  { compiler.constants[i] :
      i \in {k \in 1..Len(compiler.constants) :
               compiler.constants[k].type = "CompiledFunctionObject"} }

\* The offsets at which the instructions of a stream begin.
RECURSIVE InstructionOffsets(_, _)
InstructionOffsets(ins, at) ==
  IF at >= Len(ins) THEN {}
  ELSE {at} \cup InstructionOffsets(ins,
                    at + 1 + (IF HasDefinition(ins[at + 1])
                                THEN SumSeq(Definition(ins[at + 1]).operandWidths) ELSE 0))

JumpTargets(ins) ==
  { readUint16(ins, at + 1) :
      at \in {o \in InstructionOffsets(ins, 0) :
                ins[o + 1] \in {Opcode.OpJump, Opcode.OpJumpNotTruthy}} }

LocalIndexes(ins) ==
  { ByteAt(ins, at + 1) :
      at \in {o \in InstructionOffsets(ins, 0) :
                ins[o + 1] \in {LaterOpcode.OpGetLocal, LaterOpcode.OpSetLocal}} }

\* C1: when a ReturnValue or Return ends the call of a closure made by Call nargs,
\* the frame index is back at its value before the Call, sp is the sp before the
\* Call minus nargs, and the returned value (NULL for Return) is at stack[sp - 1].
C1_ReturnRestoresCaller ==
  (lastReturn.kind # "none" /\ lastReturn.call.kind = "closure" /\ thrown = NoError)
    => /\ framesIndex = lastReturn.call.framesIndex
       /\ stackPointer = lastReturn.call.stackPointer - lastReturn.call.numberOfArguments
       /\ ArrayGet(stack, stackPointer - 1) = lastReturn.value
       /\ (lastReturn.kind = "Return" => lastReturn.value = NULL)

\* A call with two arguments, made from inside another call, has returned a value.
C1_Witness ==
  /\ lastReturn.kind = "ReturnValue"
  /\ lastReturn.call.kind = "closure"
  /\ lastReturn.call.numberOfArguments >= 1
  /\ lastReturn.call.framesIndex >= 2
  /\ thrown = NoError

\* C2: after Call nargs on a builtin that returns no error, sp is the sp before the
\* Call minus nargs and the builtin's result is at stack[sp - 1].
C2_BuiltinCallConsumes ==
  (lastCall.kind = "builtin" /\ thrown = NoError)
    => /\ stackPointer = lastCall.stackPointer - lastCall.numberOfArguments
       /\ ArrayGet(stack, stackPointer - 1) = lastCall.result

\* C3: while a VM exists, 0 <= sp <= 2048.
C3_StackPointerInRange == VMExists => (0 <= stackPointer /\ stackPointer <= STACK_SIZE)

\* C4: while a VM exists, 1 <= frame index <= 1024.
C4_FramesIndexInRange == VMExists => (1 <= framesIndex /\ framesIndex <= MAX_FRAMES)

\* C5: Call nargs on a closure whose number of parameters differs from nargs throws
\* `wrong number of arguments: want=<parameters>, got=<nargs>`, pushes no frame, and
\* no step of the program follows.
C5_WrongArityStops ==
  (lastCall.kind = "closure"
     /\ lastCall.callee.fn.numberParameters # lastCall.numberOfArguments)
    => /\ phase = "thrown"
       /\ thrown = Error("wrong number of arguments: want=%, got=%",
                         <<lastCall.callee.fn.numberParameters, lastCall.numberOfArguments>>,
                         <<>>)
       /\ framesIndex = lastCall.framesIndex
       /\ ~ENABLED Next

\* A closure of two parameters was called with one argument, below other values.
C5_Witness ==
  /\ lastCall.kind = "closure"
  /\ lastCall.callee.fn.numberParameters = 2
  /\ lastCall.numberOfArguments = 1
  /\ lastCall.stackPointer >= 3

\* C6: when the code of an if-expression has run to its end, whichever branch was
\* taken, it has left exactly one value on the stack.
C6_IfLeavesOneValue ==
  (IsIfProgram /\ phase = "running" /\ framesIndex = 1
     /\ frames[0].instructionPointer = Len(instructions(frames[0])) - 2)
    => stackPointer = 1

\* C7: a program of expression statements never pops more than it pushed, and leaves
\* the stack as it found it.
C7_StatementsAreNeutral ==
  IsExpressionStatements
    => /\ thrown # Error("stack underflow", <<>>, <<>>)
       /\ (phase = "returned" => stackPointer = 0)

\* C8: in every instruction stream of a compiled program, the operand of every Jump
\* and JumpNotTruthy is an offset inside the stream, and is not the placeholder.
C8_JumpTargetsInRange ==
  Compiled => \A ins \in Streams : \A t \in JumpTargets(ins) : 0 <= t /\ t < Len(ins) /\ t # 9999

\* The compiled program nests an if-expression as the last statement of both
\* branches of another, and its stream holds at least six jumps.
C8_Witness ==
  /\ Compiled
  /\ phase = "bytecode"
  /\ IsIfProgram
  /\ LET outer == input.program.statements[1].expression
         last(block) == block.statements[Len(block.statements)]
     IN /\ outer.consequence.statements # <<>>
        /\ last(outer.consequence).node = "ExpressionStatement"
        /\ last(outer.consequence).expression.node = "IfExpression"
        /\ outer.alternative # <<>>
        /\ outer.alternative[1].statements # <<>>
        /\ last(outer.alternative[1]).node = "ExpressionStatement"
        /\ last(outer.alternative[1]).expression.node = "IfExpression"
  /\ Cardinality({o \in InstructionOffsets(currentInstructions(compiler), 0) :
                    currentInstructions(compiler)[o + 1]
                      \in {Opcode.OpJump, Opcode.OpJumpNotTruthy}}) >= 6

\* C9: every GetLocal and SetLocal index in the body of a compiled function is below
\* the number of locals recorded in that function.
C9_LocalIndexesInRange ==
  Compiled => \A fn \in CompiledFunctions :
                \A index \in LocalIndexes(fn.instructions) : index < fn.numberLocals

\* The definition of a name that is nearest to table t: in t, or else in the
\* nearest table around it that has one.
RECURSIVE NearestDefinition(_, _, _)
NearestDefinition(tabs, t, name) ==
  IF name \in DOMAIN tabs[t].store THEN [found |-> TRUE, symbol |-> tabs[t].store[name]]
  ELSE IF tabs[t].outer = 0 THEN [found |-> FALSE, symbol |-> NoSymbol]
  ELSE NearestDefinition(tabs, tabs[t].outer, name)

\* The nearest definition the last resolve() had before it.
ResolvedNearest == NearestDefinition(lastResolve.before, lastResolve.table, lastResolve.name)

\* C10: resolve(name), when the nearest definition of the name is a Global or BuiltIn
\* symbol, returns that symbol and leaves every table as it was.
C10_GlobalResolvesUnchanged ==
  (lastResolve.called /\ ResolvedNearest.found
     /\ ResolvedNearest.symbol.scope \in {SymbolScope.Global, SymbolScope.BuiltIn})
    => /\ lastResolve.found
       /\ lastResolve.symbol = ResolvedNearest.symbol
       /\ tables = lastResolve.before

\* A BuiltIn symbol was resolved from a table two levels inside the one defining it.
C10_Witness ==
  /\ lastResolve.called
  /\ lastResolve.found
  /\ lastResolve.symbol.scope = SymbolScope.BuiltIn
  /\ lastResolve.name \notin DOMAIN lastResolve.before[lastResolve.table].store
  /\ LET outer == lastResolve.before[lastResolve.table].outer
     IN /\ outer # 0
        /\ lastResolve.name \notin DOMAIN lastResolve.before[outer].store
        /\ lastResolve.before[outer].outer # 0

\* The last resolve() found the name in no store of its own table, and the tables
\* around it resolve the name to a Local or a Free symbol.
ResolvedThroughOuter ==
  /\ lastResolve.called
  /\ lastResolve.name \notin DOMAIN lastResolve.before[lastResolve.table].store
  /\ lastResolve.before[lastResolve.table].outer # 0
  /\ LET nearest == NearestDefinition(lastResolve.before,
                                      lastResolve.before[lastResolve.table].outer,
                                      lastResolve.name)
     IN nearest.found /\ nearest.symbol.scope \in {SymbolScope.Local, SymbolScope.Free}

\* Table u and every table between u and the table that holds the name captured it:
\* each lists the symbol of its direct outer table last and stores a Free symbol whose
\* index is the length its list had; the table that holds the name is as it was.
RECURSIVE CapturedChain(_, _, _, _)
CapturedChain(before, after, u, name) ==
  IF name \in DOMAIN before[u].store THEN after[u] = before[u]
  ELSE /\ before[u].outer # 0
       /\ name \in DOMAIN after[u].store
       /\ after[u].store[name] = Symbol(name, SymbolScope.Free, Len(before[u].freeSymbols))
       /\ name \in DOMAIN after[before[u].outer].store
       /\ after[u].freeSymbols =
            Append(before[u].freeSymbols, after[before[u].outer].store[name])
       /\ CapturedChain(before, after, before[u].outer, name)

\* C11: resolve(name) on a table that does not hold the name, when the tables around it
\* resolve it to a Local or Free symbol s, appends s to the table's freeSymbols, stores
\* and returns {name, Free, previous length of freeSymbols}; every table between the
\* defining table and this one captures the name in the same way.
C11_ResolveCaptures ==
  ResolvedThroughOuter
    => /\ lastResolve.found
       /\ lastResolve.symbol = Symbol(lastResolve.name, SymbolScope.Free,
                                      Len(lastResolve.before[lastResolve.table].freeSymbols))
       /\ tables[lastResolve.table].store[lastResolve.name] = lastResolve.symbol
       /\ CapturedChain(lastResolve.before, tables, lastResolve.table, lastResolve.name)
       /\ tables[tables[lastResolve.table].outer].store[lastResolve.name].scope
            \in {SymbolScope.Local, SymbolScope.Free}

\* A name was captured from a table more than one level out: the table between captured
\* it as well, and the resolving table lists that table's Free symbol.
C11_Witness ==
  /\ ResolvedThroughOuter
  /\ LET outer == lastResolve.before[lastResolve.table].outer
     IN /\ lastResolve.name \notin DOMAIN lastResolve.before[outer].store
        /\ tables[outer].store[lastResolve.name].scope = SymbolScope.Free
        /\ tables[lastResolve.table].freeSymbols[Len(tables[lastResolve.table].freeSymbols)]
             = tables[outer].store[lastResolve.name]

SameScopeAndIndex(first, second) ==
  /\ first.found = second.found
  /\ first.symbol.scope = second.symbol.scope
  /\ first.symbol.index = second.symbol.index

\* No name is listed twice in the freeSymbols of a table.
CapturedOnce(tabs) ==
  \A t \in 1..Len(tabs) :
    \A i, j \in 1..Len(tabs[t].freeSymbols) :
      tabs[t].freeSymbols[i].name = tabs[t].freeSymbols[j].name => i = j

\* C12: with no definition in between, a resolve(n) repeated on the same table returns
\* the same (scope, index) every time: after a resolve() call the same call again
\* changes no table and returns what the first returned, an answer that was settled
\* before the call is still settled and the same after it, and the call has added at
\* most one entry to a freeSymbols list, which never lists a name twice.
C12_ResolveIsIdempotent ==
  lastResolve.called =>
    LET again == resolve(tables, lastResolve.table, lastResolve.name)
    IN /\ again.tables = tables
       /\ SameScopeAndIndex(again, lastResolve)
       /\ \A t \in 1..Len(tables), name \in Names :
            LET first == resolve(lastResolve.before, t, name)
                second == resolve(tables, t, name)
            IN first.tables = lastResolve.before =>
                 /\ second.tables = tables
                 /\ SameScopeAndIndex(first, second)
       /\ \A t \in 1..Len(tables) :
            Len(tables[t].freeSymbols) <= Len(lastResolve.before[t].freeSymbols) + 1
       /\ CapturedOnce(tables)

\* A captured name was resolved again on the table that captured it: the stored Free
\* symbol came back and no table changed.
C12_Witness ==
  /\ lastResolve.called
  /\ lastResolve.found
  /\ lastResolve.symbol.scope = SymbolScope.Free
  /\ lastResolve.name \in DOMAIN lastResolve.before[lastResolve.table].store
  /\ Len(tables[lastResolve.table].freeSymbols) = 1
  /\ tables = lastResolve.before

\* Every Free symbol of a map is where its index says in the table's freeSymbols.
FreeSymbolsListed(tabs) ==
  \A t \in 1..Len(tabs) : \A name \in DOMAIN tabs[t].store :
    LET symbol == tabs[t].store[name]
    IN symbol.scope = SymbolScope.Free =>
         /\ symbol.index + 1 \in 1..Len(tabs[t].freeSymbols)
         /\ tabs[t].freeSymbols[symbol.index + 1].name = name

\* Every entry of a table's freeSymbols has its Free symbol in the map.
ListedSymbolsFree(tabs) ==
  \A t \in 1..Len(tabs) : \A i \in 1..Len(tabs[t].freeSymbols) :
    LET name == tabs[t].freeSymbols[i].name
    IN /\ name \in DOMAIN tabs[t].store
       /\ tabs[t].store[name] = Symbol(name, SymbolScope.Free, i - 1)

\* Every entry of a table's freeSymbols has its Free symbol in the map, unless the name
\* was defined in the table after its capture: then the map holds the Local symbol.
ListedSymbolsFreeOrLocal(tabs) ==
  \A t \in 1..Len(tabs) : \A i \in 1..Len(tabs[t].freeSymbols) :
    LET name == tabs[t].freeSymbols[i].name
    IN /\ name \in DOMAIN tabs[t].store
       /\ \/ tabs[t].store[name] = Symbol(name, SymbolScope.Free, i - 1)
          \/ tabs[t].store[name].scope = SymbolScope.Local

\* freeSymbols of every table is only appended to.
FreeSymbolsAppendOnly ==
  \A t \in 1..Len(tables) :
    /\ Len(tables'[t].freeSymbols) >= Len(tables[t].freeSymbols)
    /\ SubSeq(tables'[t].freeSymbols, 1, Len(tables[t].freeSymbols)) = tables[t].freeSymbols

C14_DefineCountsPerTable ==
  /\ [](lastDefine.called =>
          /\ lastDefine.symbol =
               Symbol(lastDefine.name,
                      IF lastDefine.before[lastDefine.table].outer = 0
                        THEN SymbolScope.Global ELSE SymbolScope.Local,
                      lastDefine.callsBefore)
          /\ \A t \in 1..Len(tables) :
               tables[t].numberDefinitions =
                 lastDefine.before[t].numberDefinitions
                   + (IF t = lastDefine.table THEN 1 ELSE 0))
  /\ [][\A t \in 1..Len(tables) :
          tables'[t].numberDefinitions >= tables[t].numberDefinitions]_vars

\* A nested table's first definition got index 0 after the global table had defined a
\* name already.
C14_Witness ==
  /\ lastDefine.called
  /\ lastDefine.table # 1
  /\ lastDefine.symbol = Symbol(lastDefine.name, SymbolScope.Local, 0)
  /\ defineCalls[1] = 1

\* The indexes of the symbols of one scope kind that a table's map holds.
IndexesOf(table, scopes) ==
  {table.store[name].index : name \in {n \in DOMAIN table.store : table.store[n].scope \in scopes}}

\* C15: in every table the Local (or Global) symbols of the map have exactly the indexes
\* 0..k-1 and the Free symbols exactly the indexes 0..m-1.
C15_IndexesAreDense ==
  \A t \in 1..Len(tables) :
    /\ LET defined == IndexesOf(tables[t], {SymbolScope.Local, SymbolScope.Global})
       IN defined = 0..(Cardinality(defined) - 1)
    /\ LET free == IndexesOf(tables[t], {SymbolScope.Free})
       IN free = 0..(Cardinality(free) - 1)

\* Two Hashable objects of the same kind and equal by value.
SameKindAndValue(first, second) ==
  /\ first.type = second.type
  /\ CASE first.type = "IntegerObject" -> first.value = second.value
       [] first.type = "BooleanObject" -> first.bool = second.bool
       [] first.type = "StringObject" -> first.str = second.str

\* C16: the hash keys of two hashable values are equal if and only if the values are of
\* the same kind and equal by value.
C16_HashKeyInjective ==
  phase = "hashed" =>
    ((hashKeys[1] = hashKeys[2]) <=> SameKindAndValue(input.first, input.second))

\* vm.lastPoppedStackElement(): this.stack[this.stackPointer]
lastPoppedStackElement == ArrayGet(stack, stackPointer)

\* One of the VM's tests has run to its end in the VM and in the evaluator.
RanBoth ==
  /\ input.kind = "source"
  /\ input.program \in VmTests
  /\ phase = "returned"
  /\ evaluated.done

\* C17: on every program of the VM's tests, the evaluator's result and the VM's last
\* popped element are values that display the same text.
C17_EvaluatorAndVMAgree ==
  RanBoth
    => /\ thrown = NoError
       /\ IsValue(lastPoppedStackElement)
       /\ IsValue(evaluated.result)
       /\ inspect(evaluated.result) = inspect(lastPoppedStackElement)

\* What the last step left on top of the stack.
StackTop == ArrayGet(stack, stackPointer - 1)

\* The last step executed a comparison of `opcodes` on two objects.
Compared(opcodes) ==
  /\ lastBinary.called
  /\ lastBinary.opcode \in opcodes
  /\ IsObject(lastBinary.left)
  /\ IsObject(lastBinary.right)

BothIntegers == lastBinary.left.type = "IntegerObject" /\ lastBinary.right.type = "IntegerObject"

\* left === right as the claim has it: by value for two Integers, by identity otherwise.
EqualOperands ==
  IF BothIntegers THEN lastBinary.left.value = lastBinary.right.value
  ELSE lastBinary.left.ref = lastBinary.right.ref

\* The comparison popped its two operands and pushed the Boolean of `answer`.
PushedBoolean(answer) ==
  /\ thrown = NoError
  /\ stackPointer = lastBinary.stackPointer - 1
  /\ StackTop = nativeBooleanToBooleanObject(answer)

\* C18: Equal and NotEqual pop two operands and always push a Boolean: two Integers are
\* compared by value, every other pair of operands, of one kind or of two, by reference
\* identity, with no runtime error.
C18_EqualityAlwaysPushes ==
  Compared({Opcode.OpEqual, Opcode.OpNotEqual})
    => PushedBoolean(EqualOperands <=> (lastBinary.opcode = Opcode.OpEqual))

\* C18, as the code has it: operands of one objectType() are compared, two Integers by
\* value and the others by reference identity, and a Boolean is pushed; operands of two
\* different objectType()s are popped and `type mismatch` is thrown with nothing pushed.
C18_EqualityOfOneType ==
  Compared({Opcode.OpEqual, Opcode.OpNotEqual})
    => IF objectType(lastBinary.left) = objectType(lastBinary.right)
         THEN PushedBoolean(EqualOperands <=> (lastBinary.opcode = Opcode.OpEqual))
         ELSE /\ thrown = TypeMismatch(lastBinary.left, lastBinary.right)
              /\ stackPointer = lastBinary.stackPointer - 2

\* An Integer was compared with a Boolean by Equal, and the comparison threw.
C18_Witness ==
  /\ Compared({Opcode.OpEqual})
  /\ lastBinary.left.type = "IntegerObject"
  /\ lastBinary.right.type = "BooleanObject"
  /\ phase = "thrown"

\* C19: GreaterThan executed with an operand that is not an Integer raises a runtime
\* error and pushes nothing, also when the two operands are of one kind.
C19_GreaterThanIntegersOnly ==
  (Compared({Opcode.OpGreaterThan}) /\ ~BothIntegers)
    => /\ thrown # NoError
       /\ stackPointer = lastBinary.stackPointer - 2

\* The absolute value.
Abs(n) == IF n < 0 THEN -n ELSE n

\* q is the quotient of a by b truncated toward zero: a = q * b + r with |r| < |b| and
\* r of the sign of a, or 0.
IsTruncatedQuotient(q, a, b) ==
  LET r == a - q * b
  IN /\ Abs(r) < Abs(b)
     /\ (r = 0 \/ (r > 0 <=> a > 0))

\* C20: Div on two Integers with a divisor other than 0 pushes the Integer of the
\* quotient truncated toward zero.
C20_DivTruncates ==
  (lastBinary.called /\ lastBinary.opcode = Opcode.OpDiv /\ BothIntegers
     /\ lastBinary.right.value # 0)
    => /\ thrown = NoError
       /\ stackPointer = lastBinary.stackPointer - 1
       /\ StackTop.type = "IntegerObject"
       /\ IsWhole(StackTop)
       /\ IsTruncatedQuotient(StackTop.value, lastBinary.left.value, lastBinary.right.value)

\* The last step executed `opcode`.
Did(opcode) == lastExecuted.called /\ lastExecuted.opcode = opcode

\* The step left the stack pointer `change` above where it found it.
Moved(change) == stackPointer = lastExecuted.stackPointer + change

\* The entries of a hash whose key is `index`, by kind and value.
PairsOf(hash, index) ==
  {i \in 1..Len(hash.pairs) : SameKindAndValue(hash.pairs[i].pair.key, index)}

\* What Index is to push for `index` on `left`: the element or the stored value, or
\* NULL, and JsNull for a pair of operands it is to refuse.
Indexed(left, index) ==
  IF left.type = "ArrayObject" /\ index.type = "IntegerObject" /\ IsWhole(index)
    THEN (IF 0 <= index.value /\ index.value < Len(left.elements)
            THEN left.elements[index.value + 1] ELSE NULL)
  ELSE IF left.type = "HashObject" /\ IsHashable(index)
    THEN (IF PairsOf(left, index) # {}
            THEN left.pairs[CHOOSE i \in PairsOf(left, index) : TRUE].pair.value ELSE NULL)
  ELSE JsNull

\* C21: Index pops the index and the collection and pushes exactly one value: the element
\* i of an Array for an Integer i within 0 .. length - 1 and NULL outside, the value
\* stored under the key of a Hash for a hashable key and NULL when the key is not
\* stored; for any other pair of operands it raises an error and pushes nothing.
C21_IndexPushesOneValue ==
  (Did(Opcode.OpIndex) /\ IsObject(lastExecuted.top[1]) /\ IsObject(lastExecuted.top[2]))
    => LET expected == Indexed(lastExecuted.top[2], lastExecuted.top[1])
       IN IF IsObject(expected)
            THEN thrown = NoError /\ Moved(-1) /\ StackTop.ref = expected.ref
            ELSE thrown # NoError /\ Moved(-2)

\* The constant a Closure instruction names is a CompiledFunction, and the stack holds
\* the values it is to capture.
ClosesFunction ==
  /\ Did(LaterOpcode.OpClosure)
  /\ lastExecuted.operand16 < Len(constants)
  /\ constants[lastExecuted.operand16 + 1].type = "CompiledFunctionObject"
  /\ lastExecuted.operand8At3 <= lastExecuted.stackPointer
  /\ lastExecuted.operand8At3 <= 3

\* The closure on top of the stack is of the constant and holds the nfree values the
\* step found on top of the stack, in the order of their slots.
ClosureCaptured ==
  LET nfree == lastExecuted.operand8At3
  IN /\ thrown = NoError
     /\ Moved(1 - nfree)
     /\ StackTop.type = "ClosureObject"
     /\ StackTop.fn.ref = constants[lastExecuted.operand16 + 1].ref
     /\ Len(StackTop.free) = nfree
     /\ \A i \in 1..nfree : StackTop.free[i].ref = lastExecuted.top[nfree - i + 1].ref

\* The free list of the closure of the current frame.
CurrentFree == frames[framesIndex - 1].closure.free

\* C22: Closure const nfree pops exactly nfree values and pushes one Closure of
\* constants[const] whose free list holds those values in stack order, and GetFree i
\* pushes free[i] of the closure whose frame is current.
C22_ClosureCapturesInOrder ==
  /\ ClosesFunction => ClosureCaptured
  /\ (Did(LaterOpcode.OpGetFree) /\ lastExecuted.operand8 < Len(CurrentFree))
       => /\ thrown = NoError
          /\ Moved(1)
          /\ StackTop.ref = CurrentFree[lastExecuted.operand8 + 1].ref

\* A closure over two different values was called and pushed its second free variable,
\* the value that was on top of the stack when the closure was made.
C22_Witness ==
  /\ Did(LaterOpcode.OpGetFree)
  /\ lastExecuted.operand8 = 1
  /\ Len(CurrentFree) = 2
  /\ CurrentFree[1].ref # CurrentFree[2].ref
  /\ framesIndex = 2
  /\ StackTop.ref = CurrentFree[2].ref

\* The bytes of the operands in an instruction: each 2-byte operand high byte first.
RECURSIVE BigEndian(_, _, _)
BigEndian(widths, operands, i) ==
  IF i > Len(widths) THEN <<>>
  ELSE (IF widths[i] = 2 THEN <<operands[i] \div 256, operands[i] % 256>> ELSE <<operands[i]>>)
       \o BigEndian(widths, operands, i + 1)

CompileFinished == input.kind = "source" /\ phase # "source"

\* C24: whenever compile() of the program finishes, normally or with a compile error
\* raised inside a function literal's body, every enterScope has been matched by a
\* leaveScope: scopeIndex and the current symbol table are the ones from before the call.
C24_ScopesStayPaired ==
  CompileFinished =>
    /\ compiler.scopeIndex = 0
    /\ Len(compiler.scopes) = 1
    /\ compiler.symbols = 1
    /\ Len(compiler.tables) = 1

\* The same on the compilations that finish normally.
C24_PairedWithoutError ==
  (CompileFinished /\ ~HasThrown(compiler)) =>
    /\ compiler.scopeIndex = 0
    /\ Len(compiler.scopes) = 1
    /\ compiler.symbols = 1
    /\ Len(compiler.tables) = 1

\* The texts of the keys of the pairs.
KeyTexts(pairs) == [i \in 1..Len(pairs) |-> asString(pairs[i][1])]

DistinctKeyTexts(pairs) ==
  \A i, j \in 1..Len(pairs) : i # j => KeyTexts(pairs)[i] # KeyTexts(pairs)[j]

\* The constants a literal of integer and string keys and values emits, pair by pair:
\* constant 2i - 2 is the i-th emitted key and constant 2i - 1 its value.
EmittedPairs(code) ==
  [i \in 1..(Len(code.constants) \div 2) |->
     <<code.constants[2 * i - 1], code.constants[2 * i]>>]

\* The text of the literal a constant was made of.
ConstantText(object) ==
  IF object.type = "StringObject" THEN object.str ELSE <<48 + object.value>>

\* The emitted keys are in the order of their text.
InKeyOrder(code) ==
  \A i \in 1..(Len(EmittedPairs(code)) - 1) :
    LocaleLessOrEqual(ConstantText(EmittedPairs(code)[i][1]),
                      ConstantText(EmittedPairs(code)[i + 1][1]))

RECURSIVE LastOpcodeFrom(_, _)
LastOpcodeFrom(ins, at) ==
  LET op == ByteAt(ins, at)
      next == at + 1 + SumSeq(Definition(op).operandWidths)
  IN IF next >= Len(ins) THEN op ELSE LastOpcodeFrom(ins, next)

EndsWithReturn(ins) ==
  /\ Len(ins) > 0
  /\ LastOpcodeFrom(ins, 0) \in {LaterOpcode.OpReturnValue, LaterOpcode.OpReturn}

\* The instructions of the body of the literal that is the program's one statement,
\* compiled in a scope of its own with the parameters defined.
BodyInstructions(literal) ==
  currentInstructions(
    compile(defineAll(enterScope(Compiler(<<SymbolTable(0)>>, <<>>, 1)), literal.parameters, 1),
            literal.body))

\* The body with a trailing Pop rewritten in place to ReturnValue, else with Return
\* appended unless it ends with ReturnValue.
WithReturn(body) ==
  IF body = <<>> THEN make(LaterOpcode.OpReturn, <<>>)
  ELSE IF LastOpcodeFrom(body, 0) = Opcode.OpPop
    THEN SubSeq(body, 1, Len(body) - 1) \o make(LaterOpcode.OpReturnValue, <<>>)
  ELSE IF LastOpcodeFrom(body, 0) = LaterOpcode.OpReturnValue THEN body
  ELSE body \o make(LaterOpcode.OpReturn, <<>>)

OneFunctionLiteral ==
  /\ Len(input.program.statements) = 1
  /\ input.program.statements[1].node = "ExpressionStatement"
  /\ input.program.statements[1].expression.node = "FunctionLiteral"

\* C26: the instructions of every function the compiler made end with ReturnValue or
\* Return: a trailing Pop of the body is rewritten in place to ReturnValue, otherwise
\* Return is appended unless the last instruction is ReturnValue (an empty body compiles
\* to a single Return); and in a function's frame the VM always has a next instruction
\* to fetch: the frame is popped before the instruction pointer passes the end.
C26_FunctionsEndWithReturn ==
  /\ (CompileFinished /\ ~HasThrown(compiler)) =>
       /\ \A i \in 1..Len(compiler.constants) :
            compiler.constants[i].type = "CompiledFunctionObject" =>
              EndsWithReturn(compiler.constants[i].instructions)
       /\ OneFunctionLiteral =>
            compiler.constants[Len(compiler.constants)].instructions
              = WithReturn(BodyInstructions(input.program.statements[1].expression))
  /\ (phase = "running" /\ framesIndex > 1) => LoopContinues

\* fn() { 1; 2 } was compiled to Constant 0, Pop, Constant 1, ReturnValue.
C26_Witness ==
  /\ CompileFinished
  /\ OneFunctionLiteral
  /\ Len(compiler.constants) = 3
  /\ compiler.constants[3].type = "CompiledFunctionObject"
  /\ compiler.constants[3].instructions =
       concatInstructions(<< make(Opcode.OpConstant, <<0>>), make(Opcode.OpPop, <<>>),
                             make(Opcode.OpConstant, <<1>>),
                             make(LaterOpcode.OpReturnValue, <<>>) >>)

\* The VM is in the frame of a function the compiler made, at its last instruction.
C26_AtLastInstruction ==
  /\ phase = "running"
  /\ input.bytecode \in CalledFunctionPrograms
  /\ framesIndex = 2
  /\ currentFrame(ThisVM).instructionPointer = Len(instructions(currentFrame(ThisVM))) - 2
  /\ FetchedOpcode \in {LaterOpcode.OpReturnValue, LaterOpcode.OpReturn}

\* The VM runs the bytecode the compiler produced.
RunsCompiled == input.kind = "source" /\ phase \in {"running", "thrown", "returned"}

\* C27: while the VM runs the bytecode the compiler produced, no value in
\* stack[0 .. sp) is a bare CompiledFunction: a function literal is loaded by a
\* Closure instruction, never by Constant.
C27_NoBareCompiledFunction ==
  /\ RunsCompiled =>
       \A k \in 0..(stackPointer - 1) : ArrayGet(stack, k).type # "CompiledFunctionObject"
  /\ (RunsCompiled /\ lastExecuted.called /\ lastExecuted.opcode = Opcode.OpConstant) =>
       ArrayGet(constants, lastExecuted.operand16 + 1).type # "CompiledFunctionObject"

\* The same on the programs without a function literal: those that compile to no
\* function constant.
C27_NoneWithoutFunctionLiteral ==
  (RunsCompiled /\ \A i \in 1..Len(constants) : constants[i].type # "CompiledFunctionObject") =>
    \A k \in 0..(stackPointer - 1) : ArrayGet(stack, k).type # "CompiledFunctionObject"

\* The value the last OpSetGlobal stored in the slot; null in a slot never stored in.
LastStored(index) ==
  IF index \in DOMAIN session.stores THEN session.stores[index].value ELSE JsNull

\* C28: the globals persist across the runs of VMs constructed with the same globals
\* array: in every run OpGetGlobal i pushes the value the last OpSetGlobal i stored, in
\* this run or in one before, and the slots of the array are at all times the values the
\* last OpSetGlobal of each slot stored: nothing else changes a global.
C28_GlobalsPersist ==
  /\ DOMAIN globals = DOMAIN session.stores
  /\ \A index \in DOMAIN globals : globals[index].ref = LastStored(index).ref
  /\ (phase = "running" /\ Did(Opcode.OpGetGlobal)) =>
       /\ stackPointer = lastExecuted.stackPointer + 1
       /\ ArrayGet(stack, stackPointer - 1).ref = LastStored(lastExecuted.operand16).ref

\* OpGetGlobal pushed, in the third line, the value that OpSetGlobal stored in the first.
C28_Witness ==
  /\ phase = "running"
  /\ Did(Opcode.OpGetGlobal)
  /\ session.lines = 3
  /\ lastExecuted.operand16 \in DOMAIN session.stores
  /\ session.stores[lastExecuted.operand16].line = 1
  /\ ArrayGet(stack, stackPointer - 1).type = "IntegerObject"
  /\ ArrayGet(stack, stackPointer - 1) = session.stores[lastExecuted.operand16].value

\* The last step ran one of the instructions that end with a pop(): OpPop, OpSetGlobal,
\* OpSetLocal, OpJumpNotTruthy.
DidPop ==
  /\ lastExecuted.called
  /\ lastExecuted.opcode \in {Opcode.OpPop, Opcode.OpSetGlobal, LaterOpcode.OpSetLocal,
                               Opcode.OpJumpNotTruthy}
  /\ thrown = NoError

\* The value that was on top of the stack before the last step is in the slot the stack
\* pointer is at.
PoppedStays ==
  /\ stackPointer = lastExecuted.stackPointer - 1
  /\ ArrayGet(stack, stackPointer).type = lastExecuted.top[1].type
  /\ ArrayGet(stack, stackPointer).ref = lastExecuted.top[1].ref

LastIsExpressionStatement ==
  /\ input.kind = "source"
  /\ Len(input.program.statements) > 0
  /\ input.program.statements[Len(input.program.statements)].node = "ExpressionStatement"

\* C29: a pop only decrements the stack pointer and leaves the slot: right after a pop
\* stack[sp] is the popped value; and after run() completes normally on a program whose
\* last statement is an expression statement, the last instruction run is the Pop of
\* that statement and lastPoppedStackElement() is the value it popped, the value of the
\* expression.
C29_PoppedValueStays ==
  /\ DidPop => PoppedStays
  /\ (LastIsExpressionStatement /\ phase = "returned" /\ thrown = NoError) =>
       /\ Did(Opcode.OpPop)
       /\ lastPoppedStackElement.type = lastExecuted.top[1].type
       /\ lastPoppedStackElement.ref = lastExecuted.top[1].ref
       /\ lastPoppedStackElement.type # "null"

\* 1 + 2 was run to its end and the last popped element is 3.
C29_Witness ==
  /\ phase = "returned"
  /\ input.kind = "source"
  /\ input.program = Program(<<ExpressionStatement(InfixExpression("+", Number(1), Number(2)))>>)
  /\ Did(Opcode.OpPop)
  /\ lastPoppedStackElement.type = "IntegerObject"
  /\ lastPoppedStackElement.value = 3

\* The last step was the call of a builtin that returned an ErrorObject.
BuiltinFailed ==
  /\ lastCall.kind = "builtin"
  /\ lastCall.result.type = "ErrorObject"

\* No slot of the stack holds an ErrorObject.
NoErrorObjectOnStack == \A k \in DOMAIN stack : stack[k].type # "ErrorObject"

\* C30: a builtin that returns an ErrorObject makes the Call raise a runtime error with
\* exactly the ErrorObject's message; the error ends the run, after which no instruction
\* executes, and the ErrorObject is never pushed on the stack.
C30_BuiltinErrorAborts ==
  /\ [](/\ BuiltinFailed =>
            /\ phase = "thrown"
            /\ thrown = lastCall.result.message
            /\ Did(LaterOpcode.OpCall)
         /\ NoErrorObjectOnStack)
  /\ [][phase # "thrown"]_vars

\* push(7, 7) has raised `argument to 'push' must be ARRAY, got INTEGER`.
C30_Witness ==
  /\ phase = "thrown"
  /\ BuiltinFailed
  /\ lastCall.callee.name = "push"
  /\ lastCall.numberOfArguments = 2
  /\ thrown = Error("argument to 'push' must be ARRAY, got %", <<>>, <<"INTEGER">>)

\* The evaluator has evaluated the program.
Evaluated == input.kind = "source" /\ evaluated.done

\* The store of the environment the program was evaluated in.
ProgramStore == evaluated.environments[1].store

\* The evaluation gave what the case asks for.
Unwound(case) ==
  /\ evaluated.result.type = "IntegerObject"
  /\ evaluated.result.value = case.value
  /\ \A i \in 1..Len(case.bindings) :
       /\ case.bindings[i][1] \in DOMAIN ProgramStore
       /\ ProgramStore[case.bindings[i][1]].type = "IntegerObject"
       /\ ProgramStore[case.bindings[i][1]].value = case.bindings[i][2]
  /\ \A name \in case.unbound : name \notin DOMAIN ProgramStore

\* C31: once a return statement is evaluated inside nested if and while blocks, no later
\* statement of an enclosing block of the function body or the program is evaluated,
\* and the call or the program evaluates to the returned value, unwrapped; a return in
\* a called function does not end the caller.
C31_ReturnUnwinds ==
  \A case \in UnwindCases \cup OperandUnwindCases :
    (Evaluated /\ input.program = case.program) => Unwound(case)

\* The same where every block that returns is an expression statement of its block.
C31_ReturnUnwindsStatements ==
  \A case \in UnwindCases : (Evaluated /\ input.program = case.program) => Unwound(case)

\* The program is one hash literal.
OneHashLiteral ==
  /\ input.kind = "source"
  /\ Len(input.program.statements) = 1
  /\ input.program.statements[1].node = "ExpressionStatement"
  /\ input.program.statements[1].expression.node = "HashLiteral"

EvaluatedPairs == input.program.statements[1].expression.pairs

\* The key is a literal of a value that is not an Integer, a Boolean or a String.
NotHashableLiteral(key) == key.node \in {"ArrayLiteral", "HashLiteral", "FunctionLiteral"}

\* C32: the evaluation of a hash literal in which a key evaluates to a value that is not
\* an Integer, a Boolean or a String gives the ErrorObject `unusable as hash key:
\* <TYPE>`, not a HashObject that lacks the pair.
C32_EvaluatorRejectsKey ==
  (Evaluated /\ OneHashLiteral
     /\ \E i \in 1..Len(EvaluatedPairs) : NotHashableLiteral(EvaluatedPairs[i][1])) =>
    /\ evaluated.result.type = "ErrorObject"
    /\ evaluated.result.message.message = "unusable as hash key: %"

\* The literals whose keys are integer, boolean and string literals evaluate to a
\* HashObject of as many pairs as the keys have different hash keys.
C32_HashableKeysKept ==
  (Evaluated /\ OneHashLiteral
     /\ \A i \in 1..Len(EvaluatedPairs) :
          EvaluatedPairs[i][1].node \in {"IntegerLiteral", "BooleanLiteral", "StringLiteral"}) =>
    /\ evaluated.result.type = "HashObject"
    /\ Len(evaluated.result.pairs) =
         Cardinality({asString(EvaluatedPairs[i][1]) : i \in 1..Len(EvaluatedPairs)})


\* The scope the last method call worked on, before and after the call.
ScopeBefore == coded.scopes[coded.scopeIndex + 1]
ScopeAfter == compiler.scopes[coded.scopeIndex + 1]
OperandBytes == InstructionWidth(ByteAt(ScopeBefore.instructions, coded.position)) - 1

\* C33: changeOperand(position, operand) changes only the operand bytes of the
\* instruction at position: the opcode byte, every byte outside
\* [position + 1, position + width], the length of the buffer, the recorded last and
\* previous instruction (and every other scope) are as before the call.
C33_ChangeOperandFrame ==
  (input.kind = "methods" /\ coded.method = "changeOperand") =>
     /\ Len(ScopeAfter.instructions) = Len(ScopeBefore.instructions)
     /\ \A k \in 0..(Len(ScopeBefore.instructions) - 1) :
          (k < coded.position + 1 \/ k > coded.position + OperandBytes) =>
             ByteAt(ScopeAfter.instructions, k) = ByteAt(ScopeBefore.instructions, k)
     /\ ScopeAfter.lastInstruction = ScopeBefore.lastInstruction
     /\ ScopeAfter.previousInstruction = ScopeBefore.previousInstruction
     /\ compiler.scopeIndex = coded.scopeIndex
     /\ Len(compiler.scopes) = Len(coded.scopes)
     /\ \A i \in 1..Len(coded.scopes) :
          i # coded.scopeIndex + 1 => compiler.scopes[i] = coded.scopes[i]

\* A jump that is followed by another instruction has got a new operand.
C33_Witness ==
  /\ input.kind = "methods" /\ coded.method = "changeOperand"
  /\ ByteAt(ScopeBefore.instructions, coded.position) = Opcode.OpJumpNotTruthy
  /\ coded.position + OperandBytes + 1 < Len(ScopeBefore.instructions)
  /\ readUint16(ScopeAfter.instructions, coded.position + 1) = 258
  /\ readUint16(ScopeBefore.instructions, coded.position + 1) = 9999

\* C34: the scopes nest as a stack: scopeIndex is the number of enterScope calls
\* less the number of leaveScope calls and is scopes.length - 1; an emit appends to
\* the buffer of the innermost scope and leaves every other scope as it was; after
\* leaveScope the scope that is current again has the instructions, lastInstruction
\* and previousInstruction it had before the matching enterScope.
C34_ScopesNest ==
  input.kind = "methods" =>
     /\ compiler.scopeIndex = coded.enters - coded.leaves
     /\ compiler.scopeIndex = Len(compiler.scopes) - 1
     /\ coded.method = "emit" =>
          /\ Len(compiler.scopes) = Len(coded.scopes)
          /\ \A i \in 1..Len(coded.scopes) :
               i # coded.scopeIndex + 1 => compiler.scopes[i] = coded.scopes[i]
          /\ ScopeAfter.instructions =
               ScopeBefore.instructions \o make(coded.position, <<coded.operand>>)
     /\ coded.method = "leaveScope" =>
          /\ currentInstructions(compiler) = coded.outer.instructions
          /\ compiler.scopes[compiler.scopeIndex + 1].lastInstruction =
               coded.outer.lastInstruction
          /\ compiler.scopes[compiler.scopeIndex + 1].previousInstruction =
               coded.outer.previousInstruction
          /\ compiler.scopes = SubSeq(coded.scopes, 1, Len(coded.scopes) - 1)

\* A scope that holds instructions was left for an outer scope that holds others.
C34_Witness ==
  /\ input.kind = "methods" /\ coded.method = "leaveScope"
  /\ ScopeBefore.instructions # <<>>
  /\ currentInstructions(compiler) # <<>>
  /\ currentInstructions(compiler) # ScopeBefore.instructions


\* The frame run() executes in, and the slots above its base pointer that the
\* function of its closure has as locals.
InFrame == VMExists /\ thrown = NoError /\ framesIndex >= 1
CurrentFrame == frames[framesIndex - 1]
LocalsEnd == CurrentFrame.basePointer + CurrentFrame.closure.fn.numberLocals

\* C35: while the frame of a closure is the current frame the stack pointer is at or
\* above base pointer + number of locals in every state, so that no push of the
\* body writes a slot that GetLocal and SetLocal address.
C35_LocalsReserved == InFrame => stackPointer >= LocalsEnd

\* The call of a closure leaves the stack pointer at base pointer + number of
\* locals, with the arguments in the slots from the base pointer on.
C35_CallReservesLocals ==
  (InFrame /\ lastCall.kind = "closure" /\ Did(LaterOpcode.OpCall)) =>
     /\ stackPointer = LocalsEnd
     /\ CurrentFrame.basePointer = lastExecuted.stackPointer - lastCall.numberOfArguments
     /\ \A i \in 1..lastCall.numberOfArguments :
          ArrayGet(stack, CurrentFrame.basePointer + i - 1).ref = lastExecuted.top[lastCall.numberOfArguments - i + 1].ref


\* The free list of a closure is the list recorded when the OpClosure built it, and so
\* are the free lists of the closures it holds.
RECURSIVE FreeListKept(_)
FreeListKept(value) ==
  value.type = "ClosureObject" =>
     /\ \A e \in 1..Len(session.closures) :
          session.closures[e].ref = value.ref =>
             /\ Len(value.free) = Len(session.closures[e].free)
             /\ \A i \in 1..Len(value.free) :
                  value.free[i].ref = session.closures[e].free[i].ref
     /\ \A i \in 1..Len(value.free) : FreeListKept(value.free[i])

\* C36: a closure keeps the values it captured: in every state, every closure on the
\* stack, in the globals, in a frame or in the free list of another closure has the
\* free list that the OpClosure that built it read from the stack, whatever was
\* executed since (SetLocal, SetGlobal, OpClosure, calls and returns); and OpGetFree
\* pushes the value of that list.
C36_CapturedValuesKept ==
  VMExists =>
     /\ \A k \in DOMAIN stack : FreeListKept(stack[k])
     /\ \A k \in DOMAIN globals : FreeListKept(globals[k])
     /\ \A k \in DOMAIN frames : FreeListKept(frames[k].closure)
     /\ (Did(LaterOpcode.OpGetFree) /\ thrown = NoError) =>
          \A e \in 1..Len(session.closures) :
             (session.closures[e].ref = CurrentFrame.closure.ref
              /\ lastExecuted.operand8 < Len(session.closures[e].free)) =>
                StackTop.ref = session.closures[e].free[lastExecuted.operand8 + 1].ref

\* A called closure has pushed the value it captured after the slot the value was
\* taken from was stored to and after a call of the closure has returned.
C36_Witness ==
  /\ VMExists /\ thrown = NoError /\ Did(LaterOpcode.OpGetFree)
  /\ \E e \in 1..Len(session.closures) :
       /\ session.closures[e].ref = CurrentFrame.closure.ref
       /\ Len(session.closures[e].free) = 1
       /\ StackTop.ref = session.closures[e].free[1].ref
       /\ StackTop.ref = 101
       /\ Len(session.closures) > e
  /\ ArrayGet(globals, 0).ref = 102


\* The symbols of the REPL's symbol table, and the lines run so far being over.
ReplSymbols == compiler.tables[1].store
BetweenLines == phase \in {"returned", "thrown", "compile error"}
SlotWritten(name) ==
  ReplSymbols[name].scope = SymbolScope.Global =>
     ReplSymbols[name].index \in DOMAIN session.stores

\* C37: across the lines of a REPL session every name that resolves to a Global
\* symbol has had its slot of the globals written by an OpSetGlobal that was executed:
\* after a line, also one that failed with a compile error or a runtime error, no
\* symbol is defined whose slot is unset, and no OpGetGlobal reads a slot never set.
C37_DefinedGlobalsAreSet ==
  /\ BetweenLines => \A name \in DOMAIN ReplSymbols : SlotWritten(name)
  /\ (phase = "running" /\ Did(Opcode.OpGetGlobal)) =>
       lastExecuted.operand16 \in DOMAIN session.stores

\* After a line that ran to its end, in a session in which no line has failed (every
\* line left a value or a let behind), the defined globals are set.
C37_SetAfterFirstLine ==
  (phase = "returned" /\ session.lines = 1) =>
     \A name \in DOMAIN ReplSymbols : SlotWritten(name)


\* C38: a reassignment changes the binding of the name in the nearest environment
\* that binds it and no other: after the program the result is what a read of the
\* nearest binding gives, a binding of the same name in a farther environment and the
\* bindings of all other names are as before, and a let in a function body leaves the
\* bindings of the program's environment alone.
C38_ReassignsNearestOnly ==
  \A case \in ReassignCases \cup ShadowedReassignCases :
    (Evaluated /\ input.program = case.program) => Unwound(case)

\* The same where the reassigned name is bound in one enclosing environment only.
C38_ReassignsOnlyBinding ==
  \A case \in ReassignCases : (Evaluated /\ input.program = case.program) => Unwound(case)


\* Every byte at which an instruction of the bytes starts is an opcode.
AllOpcodesDefined ==
  \A offset \in InstructionStarts(input.bytes, 0) : HasDefinition(ByteAt(input.bytes, offset))

\* C39: asString() terminates on every byte sequence: each iteration of its loop
\* leaves the offset above where it found it, and the loop is over after at most
\* length iterations, also when the byte at an instruction boundary is no opcode.
C39_DisassemblerTerminates ==
  input.kind = "bytes" =>
     /\ coded.iterations <= Len(input.bytes)
     /\ coded.iterations > 0 => coded.i > coded.before

\* The same for the byte sequences whose instructions all start with an opcode.
C39_TerminatesOnOpcodes ==
  (input.kind = "bytes" /\ AllOpcodesDefined) =>
     /\ coded.iterations <= Len(input.bytes)
     /\ coded.iterations > 0 => coded.i > coded.before

====
